---------------------------- MODULE Spec2Model ----------------------------
(***************************************************************************)
(* Model of the DIRAC-3 allocator of src/solverdirac3_optimize.py: the     *)
(* variable layout, the PolyBuilder, the energy polynomial, the rescale,   *)
(* the solver call, the decoder, the breakdown and the baseline, run as    *)
(* the pipeline of run_optimization.                                       *)
(*                                                                         *)
(* Numbers.  Python floats are modelled as fixed-point integers counting   *)
(* thousandths (UNIT): 0.065 is 65, 1.0 is 1000, 5000.0 USD is 5000000.    *)
(* A product a*b is FMul(a, b), a quotient a/b is FDiv(a, b).  The         *)
(* coefficients of the polynomial are exact rationals terms[m] / coef_den: *)
(* coef_den is UNIT until the rescale, which divides by max_abs / target   *)
(* exactly (numerators times target, denominator max_abs).                 *)
(***************************************************************************)
EXTENDS Integers, Sequences, FiniteSets, TLC

VARIABLES
    pools_json,        \* argument of run_optimization: positions and buckets
    hedges_json,       \* argument: hedge types, tenors, overrides, scaling
    scenarios_json,    \* argument: the scenario list
    scenario_id,       \* argument: the requested scenario
    solver,            \* the kind of solver behind the adapter: what it may respond
    api_token,         \* whether QCI_TOKEN / QCI_ACCESS_TOKEN is set
    pc,                \* position of run_optimization
    exc,               \* the exception that ended the run, "none" if none
    groups,            \* List[Group] of build_variables
    pb,                \* the PolyBuilder: [max_degree, terms, exc]
    coef_den,          \* denominator of the coefficients in pb.terms
    meta,              \* meta of build_energy_polynomial
    scale,             \* coef_rescale as the ratio <<numerator, denominator>>; 1.0 is <<UNIT, UNIT>>
    num_variables,     \* run_optimization's num_variables
    submissions,       \* number of process_job calls made
    poly_file,         \* the polynomial file run_dirac3 uploaded
    remote_status,     \* the status of the remote job, "" before it is processed
    job_resp,          \* what run_dirac3 returned
    best_i,            \* index (1-based) of the chosen sample
    sol_int,           \* the chosen solution vector
    chosen,            \* decode_argmax's Choice
    result,            \* the decision record returned
    calls,             \* the add calls made on pb by a direct caller: [monomial, coef, outcome]
    exported,          \* what the to_polynomial_file calls since the last add returned: [n, file]
    peer              \* the locals of a second request in flight while this one runs, <<>> if none

vars == <<pools_json, hedges_json, scenarios_json, scenario_id, solver, api_token, pc, exc,
          groups, pb, coef_den, meta, scale, num_variables, submissions, poly_file,
          remote_status, job_resp, best_i, sol_int, chosen, result, calls, exported, peer>>

-----------------------------------------------------------------------------
(* Bounds of the model *)

\* pool catalogs have 0..MaxPools positions
MaxPools == 4
\* the solver returns at most MaxSamples samples in a batch
MaxSamples == 2
\* the tiers per axis of the wide catalog
WideTiers == 8

-----------------------------------------------------------------------------
(* Fixed-point arithmetic *)

UNIT == 1000

FMul(a, b) == (a * b) \div UNIT
FDiv(a, b) == (a * UNIT) \div b
Abs(a) == IF a < 0 THEN 0 - a ELSE a
Max2(a, b) == IF a >= b THEN a ELSE b

\* base ** e for the multipliers the catalogs use, rounded to thousandths
\* (x ** 1.0 is x, 1.0 ** e is 1.0)
Pow(base, e) ==
    IF e = 1000 \/ base = 1000 THEN base
    ELSE CASE base = 500  /\ e = 800  -> 574
           [] base = 500  /\ e = 1100 -> 467
           [] base = 500  /\ e = 1200 -> 435
           [] base = 1800 /\ e = 800  -> 1600
           [] base = 1800 /\ e = 1100 -> 1909
           [] base = 1800 /\ e = 1200 -> 2025
           [] base = 2000 /\ e = 800  -> 1741
           [] base = 2000 /\ e = 1100 -> 2144
           [] base = 2000 /\ e = 1200 -> 2297

-----------------------------------------------------------------------------
(* MODEL_CFG *)

IL_SCORE_TO_APR == 1000
MEV_SCORE_TO_APR == 20
FAIL_PROB_TO_APR == 30
HEDGE_EXTRA_GAS_MULTIPLIER == 600
LAMBDA_MULT == 20000
TARGET_MAX_COEF_ABS == 25000

\* abs(coef) < 1e-12: below one thousandth only 0 is left
EPS == 1

-----------------------------------------------------------------------------
(* Sequence helpers *)

Range(s) == {s[i] : i \in 1..Len(s)}

\* list.index(key): position of the first occurrence
IndexOf(s, key) == CHOOSE i \in 1..Len(s) : s[i] = key /\ \A j \in 1..(i - 1) : s[j] # key

RECURSIVE Insert(_, _)
Insert(s, v) ==
    IF s = <<>> THEN <<v>>
    ELSE IF v >= s[Len(s)] THEN Append(s, v)
    ELSE Append(Insert(SubSeq(s, 1, Len(s) - 1), v), s[Len(s)])

\* sorted(monomial)
RECURSIVE Sorted(_)
Sorted(s) == IF s = <<>> THEN <<>> ELSE Insert(Sorted(SubSeq(s, 1, Len(s) - 1)), s[Len(s)])

-----------------------------------------------------------------------------
(* PolyBuilder *)

\* PolyBuilder.__init__
NewPolyBuilder(max_degree) == [max_degree |-> max_degree, terms |-> <<>>, exc |-> "none"]

\* self.terms is a dict: its entries <<monomial, coefficient>> in insertion order
TermIndex(terms, mono) ==
    IF \E i \in 1..Len(terms) : terms[i].mono = mono
    THEN CHOOSE i \in 1..Len(terms) : terms[i].mono = mono
    ELSE 0

\* self.terms.get(mono, 0.0)
CoefOf(terms, mono) ==
    LET i == TermIndex(terms, mono) IN IF i = 0 THEN 0 ELSE terms[i].coef

\* the variant that takes no monomial for empty
EmptyMonomialNever(monomial) == FALSE

\* "if len(monomial) == 0"
EmptyMonomial(monomial) == Len(monomial) = 0

\* the variant that overwrites the entry with the last coefficient
Overwritten(old, coef) == coef

\* self.terms.get(mono, 0.0) + float(coef)
Accumulated(old, coef) == old + coef

\* PolyBuilder.add; a raised ValueError is kept in exc and ends the building
PolyAdd(b, monomial, coef) ==
    IF b.exc # "none" THEN b
    ELSE IF Abs(coef) < EPS THEN b
    ELSE IF EmptyMonomial(monomial) THEN b
    ELSE IF Len(monomial) > b.max_degree THEN [b EXCEPT !.exc = "ValueError"]
    ELSE LET mono == Sorted(monomial)
             i == TermIndex(b.terms, mono)
         IN IF i = 0
            THEN [b EXCEPT !.terms = Append(b.terms, [mono |-> mono, coef |-> Accumulated(0, coef)])]
            ELSE [b EXCEPT !.terms[i].coef = Accumulated(b.terms[i].coef, coef)]

\* the variant that takes the largest degree
LargestDegree(degrees) ==
    IF degrees = {} THEN 1 ELSE CHOOSE d \in degrees : \A e \in degrees : d >= e

\* "min(degrees) if degrees else 1"
MinDegree(degrees) ==
    IF degrees = {} THEN 1 ELSE CHOOSE d \in degrees : \A e \in degrees : d <= e

\* the variant that pads on the right
PadRight(mono, max_degree) == mono \o [k \in 1..(max_degree - Len(mono)) |-> 0]

\* [0] * (max_degree - len(mono)) + list(mono)
PadLeft(mono, max_degree) == [k \in 1..(max_degree - Len(mono)) |-> 0] \o mono

\* PolyBuilder.to_polynomial_file: the "polynomial" record of the file
ToPolynomialFile(b, n) ==
    LET degrees == {Len(b.terms[i].mono) : i \in 1..Len(b.terms)}
    IN [num_variables |-> n,
        min_degree |-> MinDegree(degrees),
        max_degree |-> b.max_degree,
        data |-> [i \in 1..Len(b.terms) |->
                    [idx |-> PadLeft(b.terms[i].mono, b.max_degree), val |-> b.terms[i].coef]]]

\* the variant that keeps the padded index lists as the keys of self.terms
SelfAfterExportPadded(b) ==
    [b EXCEPT !.terms = [i \in 1..Len(b.terms) |->
                            [mono |-> PadLeft(b.terms[i].mono, b.max_degree), coef |-> b.terms[i].coef]]]

\* the builder after to_polynomial_file: the method assigns no attribute of self
\* and builds every idx from a copy of the key, list(mono)
SelfAfterExport(b) == b

-----------------------------------------------------------------------------
(* Variable layout *)

\* the absent tenor of "tenor_keys = ... else [None]"
None == "<None>"

\* gmap[name]
GMap(gs, name) == gs[CHOOSE i \in 1..Len(gs) : gs[i].name = name]
HasGroup(gs, name) == \E i \in 1..Len(gs) : gs[i].name = name

\* the variant of _make_group that advances idx one short of the block
MakeGroupOverlap(acc, name, keys) ==
    [groups |-> Append(acc.groups,
                       [name |-> name, keys |-> keys,
                        var_indices |-> [i \in 1..Len(keys) |-> acc.idx + i - 1]]),
     idx |-> acc.idx + Len(keys) - 1]

\* _make_group, with the nonlocal idx threaded through acc = [groups, idx]
MakeGroup(acc, name, keys) ==
    [groups |-> Append(acc.groups,
                       [name |-> name, keys |-> keys,
                        var_indices |-> [i \in 1..Len(keys) |-> acc.idx + i - 1]]),
     idx |-> acc.idx + Len(keys)]

\* the least number of pools build_variables accepts
MIN_POOLS == 3

\* the variant of the check that only rejects an empty catalog
TooFewPoolsEmptyOnly(pj) == Len(pj.pools) = 0

\* the "if not pools_list or len(pools_list) < 3" of build_variables
TooFewPools(pj) == Len(pj.pools) = 0 \/ Len(pj.pools) < MIN_POOLS

\* build_variables past its check: the groups in declaration order
BuildVariables(pj, hj) ==
    LET pool_keys  == [i \in 1..Len(pj.pools) |-> pj.pools[i].pool_id]
        hedge_keys == IF hj.hedge_types # <<>>
                      THEN [i \in 1..Len(hj.hedge_types) |-> hj.hedge_types[i].key]
                      ELSE <<"none", "protective_put", "collar">>
        size_keys  == IF pj.size_buckets # <<>>
                      THEN [i \in 1..Len(pj.size_buckets) |-> pj.size_buckets[i].key]
                      ELSE <<"S", "M", "L">>
        reb_keys   == IF pj.rebalance_buckets # <<>>
                      THEN [i \in 1..Len(pj.rebalance_buckets) |-> pj.rebalance_buckets[i].key]
                      ELSE <<"daily", "weekly">>
        tenor_keys == [i \in 1..Len(hj.tenor_buckets) |-> hj.tenor_buckets[i].key]
        a0 == [groups |-> <<>>, idx |-> 1]
        a1 == MakeGroup(a0, "pool", pool_keys)
        a2 == MakeGroup(a1, "hedge", hedge_keys)
        a3 == MakeGroup(a2, "size", size_keys)
        a4 == MakeGroup(a3, "rebalance", reb_keys)
        a5 == IF tenor_keys # <<>> THEN MakeGroup(a4, "tenor", tenor_keys) ELSE a4
    IN a5.groups

-----------------------------------------------------------------------------
(* Coefficient helpers *)

\* pick_scenario finds a scenario
HasScenario(sj, sid) == \E i \in 1..Len(sj) : sj[i].scenario_id = sid

\* pick_scenario: the first scenario with the id
PickScenario(sj, sid) ==
    sj[CHOOSE i \in 1..Len(sj) : sj[i].scenario_id = sid /\ \A j \in 1..(i - 1) : sj[j].scenario_id # sid]

\* {b["key"]: b for b in buckets}: the last bucket with the key
BucketMap(bs) ==
    [k \in {bs[i].key : i \in 1..Len(bs)} |->
        bs[CHOOSE i \in 1..Len(bs) : bs[i].key = k /\ \A j \in (i + 1)..Len(bs) : bs[j].key # k]]

\* get_bucket_maps: size_map
SizeMap(pj) ==
    IF pj.size_buckets # <<>> THEN BucketMap(pj.size_buckets)
    ELSE [k \in {"S", "M", "L"} |->
            CASE k = "S" -> [key |-> "S", notional_usd |-> 1000000, multiplier |-> 500]
              [] k = "M" -> [key |-> "M", notional_usd |-> 5000000, multiplier |-> 1000]
              [] k = "L" -> [key |-> "L", notional_usd |-> 20000000, multiplier |-> 2000]]

\* get_bucket_maps: reb_map
RebMap(pj) ==
    IF pj.rebalance_buckets # <<>> THEN BucketMap(pj.rebalance_buckets)
    ELSE [k \in {"daily", "weekly"} |->
            IF k = "daily" THEN [key |-> "daily", rebalance_per_week |-> 7000, multiplier |-> 1800]
            ELSE [key |-> "weekly", rebalance_per_week |-> 1000, multiplier |-> 1000]]

\* size_map.get(size_key, {}).get("notional_usd", 5000.0) and .get("multiplier", 1.0)
SizeNotional(size_map, k) == IF k \in DOMAIN size_map THEN size_map[k].notional_usd ELSE 5000000
SizeMult(size_map, k) == IF k \in DOMAIN size_map THEN size_map[k].multiplier ELSE 1000
\* reb_map.get(reb_key, {}).get("rebalance_per_week", 1.0) and .get("multiplier", 1.0)
RebPerWeek(reb_map, k) == IF k \in DOMAIN reb_map THEN reb_map[k].rebalance_per_week ELSE 1000
RebMult(reb_map, k) == IF k \in DOMAIN reb_map THEN reb_map[k].multiplier ELSE 1000

\* entry.get("cost_apr", base_cost), entry.get("il_multiplier", base_il_mult)
OverrideEntry(ov, base) ==
    <<IF "cost_apr" \in DOMAIN ov THEN ov.cost_apr ELSE base[1],
      IF "il_multiplier" \in DOMAIN ov THEN ov.il_multiplier ELSE base[2]>>

\* the variant that applies a position's override of a tenor to every hedge
RECURSIVE ApplyOverridesAnyHedge(_, _, _, _, _, _)
ApplyOverridesAnyHedge(ovs, i, pool_id, hedge_key, tenor_key, base) ==
    IF i > Len(ovs) THEN base
    ELSE LET ov == ovs[i]
             hit == ov.pool_id = pool_id /\ ov.tenor = tenor_key
         IN ApplyOverridesAnyHedge(ovs, i + 1, pool_id, hedge_key, tenor_key,
                                   IF hit THEN OverrideEntry(ov, base) ELSE base)

\* the loop over pool_overrides in hedge_params: an override is one entry
\* tenor_overrides[tenor][hedge] of a position; later entries replace earlier ones
RECURSIVE ApplyOverrides(_, _, _, _, _, _)
ApplyOverrides(ovs, i, pool_id, hedge_key, tenor_key, base) ==
    IF i > Len(ovs) THEN base
    ELSE LET ov == ovs[i]
             hit == ov.pool_id = pool_id /\ ov.tenor = tenor_key /\ ov.hedge = hedge_key
         IN ApplyOverrides(ovs, i + 1, pool_id, hedge_key, tenor_key,
                           IF hit THEN OverrideEntry(ov, base) ELSE base)

\* hedge_params: <<hedge_cost_apr, il_multiplier>>
HedgeParams(hj, pool_id, hedge_key, tenor_key, size_key) ==
    LET hts == BucketMap(hj.hedge_types)
        defaults ==
            IF hedge_key \in DOMAIN hts
            THEN <<hts[hedge_key].default_cost_apr, hts[hedge_key].default_il_multiplier>>
            ELSE <<IF hedge_key = "none" THEN 0 ELSE IF hedge_key = "protective_put" THEN 60 ELSE 30,
                   IF hedge_key = "none" THEN 1000 ELSE IF hedge_key = "protective_put" THEN 650 ELSE 800>>
        base == IF tenor_key # None
                THEN ApplyOverrides(hj.pool_overrides, 1, pool_id, hedge_key, tenor_key, defaults)
                ELSE defaults
    IN IF size_key \in DOMAIN hj.size_scaling
       THEN <<FMul(base[1], hj.size_scaling[size_key].cost_multiplier),
              FMul(base[2], hj.size_scaling[size_key].benefit_multiplier)>>
       ELSE base

-----------------------------------------------------------------------------
(* The energy polynomial *)

\* idx_of of build_energy_polynomial
idx_of(gs, group_name, key) ==
    LET g == GMap(gs, group_name) IN g.var_indices[IndexOf(g.keys, key)]

\* next(p for p in pools_list if p["pool_id"] == pool_id)
PoolOf(pools_list, pool_id) ==
    pools_list[CHOOSE i \in 1..Len(pools_list) :
                  pools_list[i].pool_id = pool_id /\ \A j \in 1..(i - 1) : pools_list[j].pool_id # pool_id]

\* (fee + incentive + base) * reward_multiplier
GrossApr(p, mult) ==
    FMul(p.reward.fee_apr + p.reward.incentive_apr + p.reward.base_apr, mult.reward_multiplier)

\* the pool-level inputs of one position under the scenario multipliers
PoolInputs(pool, mult) ==
    [pool_id |-> pool.pool_id,
     il_apr_base |-> FMul(FMul(pool.risk.il_risk_score, IL_SCORE_TO_APR), mult.il_risk_multiplier),
     gas_usd |-> FMul(pool.execution.gas_cost_usd_per_rebalance, mult.gas_multiplier),
     slippage_bps |-> FMul(pool.execution.slippage_bps_per_rebalance, mult.slippage_multiplier),
     mev_score |-> FMul(pool.execution.mev_risk_score, mult.mev_multiplier),
     fail_prob |-> FMul(pool.execution.failure_prob_per_rebalance, mult.failure_multiplier),
     liquidity_unwind_usd |-> pool.risk.liquidity_unwind_cost_usd]

\* the size-level quantities: USD costs over the notional, per-rebalance APRs
SizeInputs(pl, size_map, size_key) ==
    LET size_notional == SizeNotional(size_map, size_key)
        size_mult == SizeMult(size_map, size_key)
    IN [size_key |-> size_key,
        size_mult |-> size_mult,
        gas_apr_per_reb |-> FDiv(pl.gas_usd, Max2(size_notional, UNIT)),
        unwind_apr |-> FDiv(pl.liquidity_unwind_usd, Max2(size_notional, UNIT)),
        slippage_apr_per_reb |-> FMul(FDiv(pl.slippage_bps, 10000 * UNIT), Pow(size_mult, 1200)),
        mev_apr_per_reb |-> FMul(FMul(pl.mev_score, MEV_SCORE_TO_APR), Pow(size_mult, 1100)),
        fail_apr_per_reb |-> FMul(FMul(pl.fail_prob, FAIL_PROB_TO_APR), Pow(size_mult, 1000))]

\* exec_drag_apr: the annualized per-rebalance costs plus a tenth of the unwind cost
ExecDragApr(sl, reb_per_week, reb_mult) ==
    LET per_reb_cost_apr ==
            FMul(FMul(sl.gas_apr_per_reb + sl.slippage_apr_per_reb + sl.mev_apr_per_reb
                        + sl.fail_apr_per_reb, reb_per_week), 52 * UNIT)
    IN FMul(per_reb_cost_apr, reb_mult) + FMul(100, sl.unwind_apr)

\* il_penalty_apr
IlPenaltyApr(il_apr_base, size_mult, reb_mult, h_il_mult) ==
    FMul(FMul(FMul(il_apr_base, Pow(size_mult, 1000)), Pow(reb_mult, 800)), h_il_mult)

\* hedge_overhead
HedgeOverhead(gas_apr_per_reb, reb_per_week) ==
    FMul(FMul(FMul(HEDGE_EXTRA_GAS_MULTIPLIER, gas_apr_per_reb), reb_per_week), 52 * UNIT)

\* the variant that adds the reward without negating it
RewardCoefPositive(gross_apr) == gross_apr

\* coef=-gross_apr: the reward is negated for minimization
RewardCoef(gross_apr) == 0 - gross_apr

\* "for p in pools_list": the linear reward terms
RECURSIVE RewardLoop(_, _, _)
RewardLoop(b, c, i) ==
    IF i > Len(c.pools_list) \/ b.exc # "none" THEN b
    ELSE RewardLoop(PolyAdd(b, <<idx_of(c.gs, "pool", c.pools_list[i].pool_id)>>,
                            RewardCoef(GrossApr(c.pools_list[i], c.mult))), c, i + 1)

\* the monomial of the hedge-cost term
HedgeCostMono(c, pool_id, size_key, hedge_key, tenor_key) ==
    LET mono == <<idx_of(c.gs, "pool", pool_id), idx_of(c.gs, "size", size_key),
                  idx_of(c.gs, "hedge", hedge_key)>>
    IN IF c.has_tenor /\ tenor_key # None THEN Append(mono, idx_of(c.gs, "tenor", tenor_key)) ELSE mono

\* the variant that leaves the tenor out of the hedge-overhead monomial
HedgeOverheadMonoNoTenor(c, pool_id, size_key, reb_key, hedge_key, tenor_key) ==
    <<idx_of(c.gs, "pool", pool_id), idx_of(c.gs, "size", size_key),
      idx_of(c.gs, "rebalance", reb_key), idx_of(c.gs, "hedge", hedge_key)>>

\* the monomial of the hedge-overhead term
HedgeOverheadMono(c, pool_id, size_key, reb_key, hedge_key, tenor_key) ==
    LET mono2 == <<idx_of(c.gs, "pool", pool_id), idx_of(c.gs, "size", size_key),
                   idx_of(c.gs, "rebalance", reb_key), idx_of(c.gs, "hedge", hedge_key)>>
    IN IF c.has_tenor /\ tenor_key # None THEN Append(mono2, idx_of(c.gs, "tenor", tenor_key)) ELSE mono2

\* the body of "for tenor_key in tenor_keys": IL penalty, hedge cost, hedge overhead
TenorBody(b, c, pl, sl, rl, hedge_key, tenor_key) ==
    LET hp == HedgeParams(c.hj, pl.pool_id, hedge_key, tenor_key, sl.size_key)
        il_penalty_apr == IlPenaltyApr(pl.il_apr_base, sl.size_mult, rl.reb_mult, hp[2])
        b1 == PolyAdd(b, <<idx_of(c.gs, "pool", pl.pool_id), idx_of(c.gs, "size", sl.size_key),
                           idx_of(c.gs, "rebalance", rl.reb_key), idx_of(c.gs, "hedge", hedge_key)>>,
                      il_penalty_apr)
        b2 == PolyAdd(b1, HedgeCostMono(c, pl.pool_id, sl.size_key, hedge_key, tenor_key), hp[1])
    IN IF hedge_key # "none"
       THEN PolyAdd(b2, HedgeOverheadMono(c, pl.pool_id, sl.size_key, rl.reb_key, hedge_key, tenor_key),
                    HedgeOverhead(sl.gas_apr_per_reb, rl.reb_per_week))
       ELSE b2

RECURSIVE TenorLoop(_, _, _, _, _, _, _)
TenorLoop(b, c, pl, sl, rl, hedge_key, t) ==
    IF t > Len(c.tenor_keys) \/ b.exc # "none" THEN b
    ELSE TenorLoop(TenorBody(b, c, pl, sl, rl, hedge_key, c.tenor_keys[t]), c, pl, sl, rl, hedge_key, t + 1)

RECURSIVE HedgeLoop(_, _, _, _, _, _)
HedgeLoop(b, c, pl, sl, rl, h) ==
    IF h > Len(c.hedge_keys) \/ b.exc # "none" THEN b
    ELSE HedgeLoop(TenorLoop(b, c, pl, sl, rl, c.hedge_keys[h], 1), c, pl, sl, rl, h + 1)

\* "for reb_key in reb_keys": the execution-drag term, then the hedge loop
RECURSIVE RebLoop(_, _, _, _, _)
RebLoop(b, c, pl, sl, r) ==
    IF r > Len(c.reb_keys) \/ b.exc # "none" THEN b
    ELSE LET reb_key == c.reb_keys[r]
             rl == [reb_key |-> reb_key,
                    reb_per_week |-> RebPerWeek(c.reb_map, reb_key),
                    reb_mult |-> RebMult(c.reb_map, reb_key)]
             b1 == PolyAdd(b, <<idx_of(c.gs, "pool", pl.pool_id), idx_of(c.gs, "size", sl.size_key),
                                idx_of(c.gs, "rebalance", reb_key)>>,
                           ExecDragApr(sl, rl.reb_per_week, rl.reb_mult))
         IN RebLoop(HedgeLoop(b1, c, pl, sl, rl, 1), c, pl, sl, r + 1)

RECURSIVE SizeLoop(_, _, _, _)
SizeLoop(b, c, pl, s) ==
    IF s > Len(c.size_keys) \/ b.exc # "none" THEN b
    ELSE SizeLoop(RebLoop(b, c, pl, SizeInputs(pl, c.size_map, c.size_keys[s]), 1), c, pl, s + 1)

\* "for pool_id in pool_keys"
RECURSIVE PoolLoop(_, _, _)
PoolLoop(b, c, p) ==
    IF p > Len(c.pool_keys) \/ b.exc # "none" THEN b
    ELSE PoolLoop(SizeLoop(b, c, PoolInputs(PoolOf(c.pools_list, c.pool_keys[p]), c.mult), 1), c, p + 1)

\* the variant that configures degree 4 with or without a tenor group
MaxDegreeFour(has_tenor) == 4

\* max_degree = 5 if has_tenor else 4
MaxDegree(has_tenor) == IF has_tenor THEN 5 ELSE 4

\* the locals of build_energy_polynomial before its loops
BuildContext(pj, hj, sj, sid, gs) ==
    LET has_tenor == HasGroup(gs, "tenor")
    IN [pools_list |-> pj.pools,
        mult |-> PickScenario(sj, sid).multipliers,
        size_map |-> SizeMap(pj),
        reb_map |-> RebMap(pj),
        hj |-> hj,
        gs |-> gs,
        has_tenor |-> has_tenor,
        max_degree |-> MaxDegree(has_tenor),
        pool_keys |-> GMap(gs, "pool").keys,
        hedge_keys |-> GMap(gs, "hedge").keys,
        size_keys |-> GMap(gs, "size").keys,
        reb_keys |-> GMap(gs, "rebalance").keys,
        tenor_keys |-> IF has_tenor THEN GMap(gs, "tenor").keys ELSE <<None>>]

\* the reward, cost and penalty terms: the builder before the one-hot constraints
ObjectiveTerms(pj, hj, sj, sid, gs) ==
    LET c == BuildContext(pj, hj, sj, sid, gs)
    IN PoolLoop(RewardLoop(NewPolyBuilder(c.max_degree), c, 1), c, 1)

\* max((abs(c) for c in pb.terms.values()), default=1.0)
MaxAbs(terms) ==
    IF terms = <<>> THEN UNIT
    ELSE LET mags == {Abs(terms[i].coef) : i \in 1..Len(terms)}
         IN CHOOSE v \in mags : \A w \in mags : v >= w

\* the variant that divides max_abs by LAMBDA_MULT
LambdaDivided(terms) == FDiv(MaxAbs(terms), LAMBDA_MULT)

\* lam
Lambda(terms) == FMul(LAMBDA_MULT, MaxAbs(terms))

\* the variant with the pairwise coefficient lam
PairCoefSingle(lam) == lam

\* the coefficient of the pairwise one-hot terms
PairCoef(lam) == 2 * lam

\* "for vi in g.var_indices: pb.add((vi,), -lam)"
RECURSIVE OneHotLinear(_, _, _, _)
OneHotLinear(b, g, lam, i) ==
    IF i > Len(g.var_indices) \/ b.exc # "none" THEN b
    ELSE OneHotLinear(PolyAdd(b, <<g.var_indices[i]>>, 0 - lam), g, lam, i + 1)

\* "for vi, vj in combinations(g.var_indices, 2): pb.add((vi, vj), 2.0 * lam)"
RECURSIVE OneHotPairs(_, _, _, _, _)
OneHotPairs(b, g, lam, i, j) ==
    IF i >= Len(g.var_indices) \/ b.exc # "none" THEN b
    ELSE IF j > Len(g.var_indices) THEN OneHotPairs(b, g, lam, i + 1, i + 2)
    ELSE OneHotPairs(PolyAdd(b, <<g.var_indices[i], g.var_indices[j]>>, PairCoef(lam)), g, lam, i, j + 1)

\* the variant whose linear terms start at the second variable of the group
OneHotGroupSkipFirst(b, g, lam) == OneHotPairs(OneHotLinear(b, g, lam, 2), g, lam, 1, 2)

\* the one-hot constraint terms of one group
OneHotGroup(b, g, lam) == OneHotPairs(OneHotLinear(b, g, lam, 1), g, lam, 1, 2)

\* "for g in groups"
RECURSIVE OneHotLoop(_, _, _, _)
OneHotLoop(b, gs, lam, i) ==
    IF i > Len(gs) \/ b.exc # "none" THEN b
    ELSE OneHotLoop(OneHotGroup(b, gs[i], lam), gs, lam, i + 1)

\* build_energy_polynomial past pick_scenario: [pb, meta]
BuildEnergyPolynomial(pj, hj, sj, sid, gs) ==
    LET b == ObjectiveTerms(pj, hj, sj, sid, gs)
        lam == Lambda(b.terms)
    IN [pb |-> OneHotLoop(b, gs, lam, 1),
        meta |-> [scenario_id |-> sid, lambda |-> lam, max_degree |-> b.max_degree]]

\* the energy numerator of the assignment x (the set of variables that are 1):
\* the sum of the coefficients of the monomials whose variables are all 1
RECURSIVE EnergyBetween(_, _, _, _)
EnergyBetween(terms, x, lo, hi) ==
    IF lo > hi THEN 0
    ELSE IF lo = hi THEN (IF Range(terms[lo].mono) \subseteq x THEN terms[lo].coef ELSE 0)
    ELSE LET mid == (lo + hi) \div 2
         IN EnergyBetween(terms, x, lo, mid) + EnergyBetween(terms, x, mid + 1, hi)

Energy(terms, x) == EnergyBetween(terms, x, 1, Len(terms))

-----------------------------------------------------------------------------
(* Decode, breakdown, baseline *)

\* the variant in which a later position of equal value replaces the best one
BetterOrEqual(v, best_v) == v >= best_v

\* the variant that takes the position of the least value
Lesser(v, best_v) == v < best_v

\* max(range(len(vals)), key=lambda k: vals[k]): a later position replaces the
\* best one only when its value is strictly greater
Better(v, best_v) == v > best_v

RECURSIVE ArgMaxFrom(_, _, _)
ArgMaxFrom(vals, k, best) ==
    IF k > Len(vals) THEN best
    ELSE ArgMaxFrom(vals, k + 1, IF Better(vals[k], vals[best]) THEN k ELSE best)

\* decode_argmax: one key per group
DecodeArgmax(gs, solution_vec) ==
    [name \in {gs[i].name : i \in 1..Len(gs)} |->
        LET g == GMap(gs, name)
            vals == [k \in 1..Len(g.var_indices) |-> solution_vec[g.var_indices[k]]]
        IN g.keys[ArgMaxFrom(vals, 2, 1)]]

\* compute_breakdown
ComputeBreakdown(pj, hj, sj, sid, ch) ==
    LET mult == PickScenario(sj, sid).multipliers
        pool == PoolOf(pj.pools, ch["pool"])
        gross_apr == GrossApr(pool, mult)
        size_key == ch["size"]
        reb_key == ch["rebalance"]
        reb_per_week == RebPerWeek(RebMap(pj), reb_key)
        reb_mult == RebMult(RebMap(pj), reb_key)
        hedge_key == ch["hedge"]
        tenor_key == IF "tenor" \in DOMAIN ch THEN ch["tenor"] ELSE None
        hp == HedgeParams(hj, pool.pool_id, hedge_key, tenor_key, size_key)
        pl == PoolInputs(pool, mult)
        sl == SizeInputs(pl, SizeMap(pj), size_key)
        il_penalty_apr == IlPenaltyApr(pl.il_apr_base, sl.size_mult, reb_mult, hp[2])
        exec_drag_apr == ExecDragApr(sl, reb_per_week, reb_mult)
        hedge_overhead_apr == IF hedge_key # "none" THEN HedgeOverhead(sl.gas_apr_per_reb, reb_per_week) ELSE 0
        total_penalties == il_penalty_apr + hp[1] + exec_drag_apr + hedge_overhead_apr
    IN [rewards |-> [fee_apr |-> pool.reward.fee_apr,
                     incentive_apr |-> pool.reward.incentive_apr,
                     base_apr |-> pool.reward.base_apr,
                     total_gross_apr |-> gross_apr],
        penalties_and_costs |-> [il_penalty_apr |-> il_penalty_apr,
                                 hedge_cost_apr |-> hp[1],
                                 execution_drag_apr |-> exec_drag_apr,
                                 hedge_overhead_apr |-> hedge_overhead_apr,
                                 total_penalties_apr |-> total_penalties],
        net_apr |-> [estimated_net_apr |-> gross_apr - total_penalties]]

\* the variant in which a later pool of equal gross yield replaces the best one
BeatsBestOrEqual(gross, best_gross) == gross >= best_gross

\* "if gross > best_gross"
BeatsBest(gross, best_gross) == gross > best_gross

\* the loop of compute_baseline: best = <<best_pool, best_gross>>
RECURSIVE BestGrossLoop(_, _, _, _)
BestGrossLoop(pools_list, mult, i, best) ==
    IF i > Len(pools_list) THEN best
    ELSE LET gross == GrossApr(pools_list[i], mult)
         IN BestGrossLoop(pools_list, mult, i + 1,
                          IF BeatsBest(gross, best[2]) THEN <<pools_list[i].pool_id, gross>> ELSE best)

\* the hedge compute_baseline forces
BaselineHedge == "none"

\* compute_baseline
ComputeBaseline(pj, sj, sid, ch) ==
    LET mult == PickScenario(sj, sid).multipliers
        best == BestGrossLoop(pj.pools, mult, 1, <<None, 0 - 1000000000>>)
    IN [k \in DOMAIN ch \cup {"pool", "hedge"} |->
          IF k = "pool" THEN best[1] ELSE IF k = "hedge" THEN BaselineHedge ELSE ch[k]]

-----------------------------------------------------------------------------
(* The rescale of run_optimization *)

\* the variant with the comparison turned round
NeedsRescaleInverted(terms) == MaxAbs(terms) < TARGET_MAX_COEF_ABS

\* "if max_abs > target"
NeedsRescale(terms) == MaxAbs(terms) > TARGET_MAX_COEF_ABS

\* the variant with floor division, pb.terms[k] // scale
RescaleCoefFloor(coef, den, max_abs) ==
    ((coef * (TARGET_MAX_COEF_ABS \div den)) \div max_abs) * max_abs

\* pb.terms[k] / scale with scale = max_abs / target, kept exact: the coefficient
\* coef / den becomes (coef * target / den) / max_abs, and target / den is a whole
\* number; the result is the numerator over the new denominator max_abs
RescaleCoef(coef, den, max_abs) == coef * (TARGET_MAX_COEF_ABS \div den)

\* "for k in list(pb.terms.keys()): pb.terms[k] = pb.terms[k] / scale"
RescaleTerms(terms, den, max_abs) ==
    [i \in 1..Len(terms) |->
        [mono |-> terms[i].mono, coef |-> RescaleCoef(terms[i].coef, den, max_abs)]]

-----------------------------------------------------------------------------
(* The remote solver *)

COMPLETED == "COMPLETED"

\* the 0/1 vectors of length n
Vectors(n) == [1..n -> {0, 1}]

\* the set of variables a vector sets to 1
Ones(v) == {i \in 1..Len(v) : v[i] = 1}

\* the vector that sets exactly the variables of x
VectorOf(x, n) == [i \in 1..n |-> IF i \in x THEN 1 ELSE 0]

\* x selects exactly one variable of the group g
OneHotIn(g, x) == Cardinality(Range(g.var_indices) \cap x) = 1

\* the assignments over 1..n that select exactly one variable in every group
ValidAssignments(gs, n) == {x \in SUBSET (1..n) : \A i \in 1..Len(gs) : OneHotIn(gs[i], x)}

\* the sample vectors of a sampling solver: the one-hot vectors, no variable set,
\* every variable set
SampleVectors(gs, n) == {VectorOf(x, n) : x \in ValidAssignments(gs, n) \cup {{}, 1..n}}

\* the vectors the multi-sample batches are made of
BatchVectors(gs, n) ==
    {VectorOf({}, n),
     VectorOf({gs[i].var_indices[1] : i \in 1..Len(gs)}, n),
     VectorOf({gs[i].var_indices[Len(gs[i].var_indices)] : i \in 1..Len(gs)}, n)}

\* the energies a multi-sample batch reports
BatchEnergies == {0 - UNIT, 0}

Response(status, energies, solutions) ==
    [status |-> status, results |-> [energies |-> energies, solutions |-> solutions]]

\* the job responses of the solver of the given kind: "vectors" answers with any
\* one 0/1 vector, "batches" with a failure, no sample, one sample vector or a
\* batch of samples, "few" with the same but the batch vectors as single samples,
\* "single" as "few" without the batches
SolverResponses(kind, gs, n) ==
    IF kind = "vectors"
    THEN {Response(COMPLETED, <<0>>, <<v>>) : v \in Vectors(n)}
    ELSE {Response("FAILED", <<>>, <<>>), Response(COMPLETED, <<>>, <<>>)}
         \cup {Response(COMPLETED, <<0>>, <<v>>) :
                  v \in IF kind \in {"few", "single"} THEN BatchVectors(gs, n) ELSE SampleVectors(gs, n)}
         \cup UNION {{Response(COMPLETED, es, vs) :
                         es \in [1..k -> BatchEnergies], vs \in [1..k -> BatchVectors(gs, n)]}
                     : k \in IF kind = "single" THEN {} ELSE 2..MaxSamples}

\* the variant of the check that only rejects a response without a status
JobFailedNoStatus(resp) == resp.status = ""

\* the "status != COMPLETED" check of run_dirac3
JobFailed(resp) == resp.status # COMPLETED

\* the variant in which a later position of equal energy replaces the best one
LowerOrEqual(e, best_e) == e <= best_e

\* min(..., key=...): a later position replaces the best one only when its
\* energy is strictly lower
Lower(e, best_e) == e < best_e

\* min(range(len(energies)), key=lambda i: energies[i])
RECURSIVE ArgMinFrom(_, _, _)
ArgMinFrom(energies, i, best) ==
    IF i > Len(energies) THEN best
    ELSE ArgMinFrom(energies, i + 1, IF Lower(energies[i], energies[best]) THEN i ELSE best)

-----------------------------------------------------------------------------
(* The catalogs the runs are given *)

PoolIds == <<"P1", "P2", "P3", "P4", "P5", "P6">>

Pool(id, fee, inc, base, il, unwind, gas, slip, mev, fail) ==
    [pool_id |-> id,
     label |-> id,
     reward |-> [fee_apr |-> fee, incentive_apr |-> inc, base_apr |-> base],
     risk |-> [il_risk_score |-> il, liquidity_unwind_cost_usd |-> unwind],
     execution |-> [gas_cost_usd_per_rebalance |-> gas, slippage_bps_per_rebalance |-> slip,
                    mev_risk_score |-> mev, failure_prob_per_rebalance |-> fail]]

\* the positions of the end-to-end scenario: P1 10% no risk, P2 14% IL 0.3, P3 6%
PlainPool(i) ==
    CASE i = 1 -> Pool(PoolIds[i], 100, 0, 0, 0, 0, 0, 0, 0, 0)
      [] i = 2 -> Pool(PoolIds[i], 140, 0, 0, 300, 0, 0, 0, 0, 0)
      [] i = 3 -> Pool(PoolIds[i], 60, 0, 0, 0, 0, 0, 0, 0, 0)
      [] OTHER -> Pool(PoolIds[i], 80, 0, 0, 100, 0, 0, 0, 0, 0)

\* positions with execution costs: gas, slippage, MEV, failures, unwind
CostlyPool(i) ==
    CASE i = 1 -> Pool(PoolIds[i], 80, 20, 10, 50, 50000, 25000, 10000, 500, 200)
      [] i = 2 -> Pool(PoolIds[i], 140, 0, 0, 300, 0, 50000, 20000, 0, 0)
      [] i = 3 -> Pool(PoolIds[i], 60, 0, 0, 0, 20000, 0, 0, 1000, 0)
      [] OTHER -> Pool(PoolIds[i], 200, 0, 0, 100, 0, 5000, 0, 0, 500)

\* positions whose highest gross yield is shared
TiedPool(i) ==
    CASE i = 1 -> Pool(PoolIds[i], 100, 0, 0, 0, 0, 0, 0, 0, 0)
      [] i = 2 -> Pool(PoolIds[i], 100, 40, 0, 200, 0, 5000, 0, 0, 0)
      [] OTHER -> Pool(PoolIds[i], 90, 0, 50, 50, 0, 0, 0, 0, 0)

Profiles == {"plain", "costly", "tied"}

PoolsOf(profile, n) ==
    [i \in 1..n |-> CASE profile = "plain" -> PlainPool(i)
                      [] profile = "costly" -> CostlyPool(i)
                      [] OTHER -> TiedPool(i)]

SizeS == [key |-> "S", notional_usd |-> 1000000, multiplier |-> 500]
SizeM == [key |-> "M", notional_usd |-> 5000000, multiplier |-> 1000]
RebDaily == [key |-> "daily", rebalance_per_week |-> 7000, multiplier |-> 1800]
RebWeekly == [key |-> "weekly", rebalance_per_week |-> 1000, multiplier |-> 1000]

HedgeTypes ==
    <<[key |-> "none", default_cost_apr |-> 0, default_il_multiplier |-> 1000],
      [key |-> "put", default_cost_apr |-> 60, default_il_multiplier |-> 650]>>

\* the tier lists of a catalog: size tiers, rebalance tiers, tenor tiers, hedge types
Shape(sizes, rebs, tenors, hedges) ==
    [sizes |-> sizes, rebs |-> rebs, tenors |-> tenors, hedges |-> hedges]

\* shapes given with any number of pools
SmallShapes ==
    {Shape(<<SizeM>>, <<RebWeekly>>, <<>>, HedgeTypes),
     Shape(<<SizeM>>, <<RebDaily, RebWeekly>>, <<>>, HedgeTypes),
     Shape(<<SizeM>>, <<RebWeekly>>, <<[key |-> "7D"], [key |-> "14D"]>>, HedgeTypes),
     Shape(<<SizeS, SizeM>>, <<RebWeekly>>, <<[key |-> "14D"]>>, HedgeTypes)}

\* shapes given with the least number of pools: every axis with two or more
\* tiers, and the catalog that leaves every tier list to the defaults
LargeShapes ==
    {Shape(<<SizeS, SizeM>>, <<RebDaily, RebWeekly>>, <<[key |-> "7D"], [key |-> "14D"]>>, HedgeTypes),
     Shape(<<>>, <<>>, <<>>, <<>>)}

PoolsJson(profile, n, shape) ==
    [pools |-> PoolsOf(profile, n), size_buckets |-> shape.sizes, rebalance_buckets |-> shape.rebs]

\* the hedge catalog: the override of P2 at tenor 14D makes the put a net credit
\* (a negative cost) there and replaces an earlier override of the same entry;
\* the override of P1 at tenor 7D gives the IL multiplier of the put only
HedgesJson(shape) ==
    [hedge_types |-> shape.hedges,
     tenor_buckets |-> shape.tenors,
     pool_overrides |-> <<[pool_id |-> "P2", tenor |-> "14D", hedge |-> "put",
                           cost_apr |-> 10, il_multiplier |-> 900],
                          [pool_id |-> "P1", tenor |-> "7D", hedge |-> "put",
                           il_multiplier |-> 700],
                          [pool_id |-> "P2", tenor |-> "14D", hedge |-> "put",
                           cost_apr |-> 0 - 20, il_multiplier |-> 500]>>,
     size_scaling |-> [k \in {"S"} |-> [cost_multiplier |-> 1200, benefit_multiplier |-> 900]]]

\* the wide catalog: WideTiers pools of 2% yield and no risk or execution cost,
\* WideTiers size tiers, one rebalance tier, WideTiers tenor tiers, and the hedge
\* none with WideTiers hedge types that are a net credit of 2% (cost -0.02)
WidePool(i) == Pool("W" \o ToString(i), 20, 0, 0, 0, 0, 0, 0, 0, 0)

WideShape ==
    Shape([i \in 1..WideTiers |->
              [key |-> "S" \o ToString(i), notional_usd |-> 5000000, multiplier |-> 1000]],
          <<RebWeekly>>,
          [i \in 1..WideTiers |-> [key |-> "T" \o ToString(i)]],
          <<[key |-> "none", default_cost_apr |-> 0, default_il_multiplier |-> 1000]>>
            \o [i \in 1..WideTiers |->
                  [key |-> "H" \o ToString(i), default_cost_apr |-> 0 - 20,
                   default_il_multiplier |-> 800]])

WideCatalog ==
    <<[pools |-> [i \in 1..WideTiers |-> WidePool(i)],
       size_buckets |-> WideShape.sizes,
       rebalance_buckets |-> WideShape.rebs],
      HedgesJson(WideShape)>>

Scenarios ==
    <<[scenario_id |-> "CALM",
       multipliers |-> [reward_multiplier |-> 1000, il_risk_multiplier |-> 1000,
                        gas_multiplier |-> 1000, slippage_multiplier |-> 1000,
                        mev_multiplier |-> 1000, failure_multiplier |-> 1000]],
      [scenario_id |-> "STRESS",
       multipliers |-> [reward_multiplier |-> 900, il_risk_multiplier |-> 2000,
                        gas_multiplier |-> 2000, slippage_multiplier |-> 1500,
                        mev_multiplier |-> 2000, failure_multiplier |-> 2000]]>>

ScenarioIds == {"CALM", "STRESS", "UNKNOWN"}

\* the <<pools_json, hedges_json>> pairs of the runs
Catalogs ==
    {<<PoolsJson(profile, n, shape), HedgesJson(shape)>> :
        profile \in Profiles, n \in 0..MaxPools, shape \in SmallShapes}
    \cup {<<PoolsJson(profile, MIN_POOLS, shape), HedgesJson(shape)>> :
            profile \in Profiles, shape \in LargeShapes}

\* the catalogs every vector is decoded against
DecodeCatalogs ==
    {<<PoolsJson("costly", n, shape), HedgesJson(shape)>> :
        n \in MIN_POOLS..MaxPools, shape \in SmallShapes}

-----------------------------------------------------------------------------
(* run_optimization *)

NoBuilder == [max_degree |-> 0, terms |-> <<>>, exc |-> "none"]
NoMeta == [scenario_id |-> "", lambda |-> 0, max_degree |-> 0]
NoResponse == Response("", <<>>, <<>>)
\* the state at the entry of run_optimization
InitRun(cats, sids, kinds, tokens) ==
    /\ \E cat \in cats : pools_json = cat[1] /\ hedges_json = cat[2]
    /\ scenarios_json = Scenarios
    /\ scenario_id \in sids
    /\ solver \in kinds
    /\ api_token \in tokens
    /\ pc = "start"
    /\ exc = "none"
    /\ groups = <<>>
    /\ pb = NoBuilder
    /\ coef_den = UNIT
    /\ meta = NoMeta
    /\ scale = <<0, 0>>
    /\ num_variables = 0
    /\ submissions = 0
    /\ poly_file = <<>>
    /\ remote_status = ""
    /\ job_resp = NoResponse
    /\ best_i = 0
    /\ sol_int = <<>>
    /\ chosen = <<>>
    /\ result = <<>>
    /\ calls = <<>>
    /\ exported = <<>>

\* one request, nothing else in flight
InitWith(cats, sids, kinds, tokens) == InitRun(cats, sids, kinds, tokens) /\ peer = <<>>

Init == InitWith(Catalogs, ScenarioIds, {"batches"}, BOOLEAN)

\* build_variables (line 582)
BuildVariablesStep ==
    /\ pc = "start"
    /\ IF TooFewPools(pools_json)
       THEN /\ pc' = "error"
            /\ exc' = "ValueError"
            /\ UNCHANGED groups
       ELSE /\ pc' = "layout"
            /\ groups' = BuildVariables(pools_json, hedges_json)
            /\ UNCHANGED exc
    /\ UNCHANGED <<pools_json, hedges_json, scenarios_json, scenario_id, solver, api_token,
                   calls, exported, peer,
                   pb, coef_den, meta, scale, num_variables, submissions, poly_file,
                   remote_status, job_resp, best_i, sol_int, chosen, result>>

\* build_energy_polynomial (line 587): pick_scenario may raise, add may raise
BuildPolynomialStep ==
    /\ pc = "layout"
    /\ IF ~HasScenario(scenarios_json, scenario_id)
       THEN /\ pc' = "error"
            /\ exc' = "ValueError"
            /\ UNCHANGED <<pb, meta>>
       ELSE LET built == BuildEnergyPolynomial(pools_json, hedges_json, scenarios_json,
                                               scenario_id, groups)
            IN IF built.pb.exc # "none"
               THEN /\ pc' = "error"
                    /\ exc' = built.pb.exc
                    /\ UNCHANGED <<pb, meta>>
               ELSE /\ pc' = "poly"
                    /\ pb' = built.pb
                    /\ meta' = built.meta
                    /\ UNCHANGED exc
    /\ UNCHANGED <<pools_json, hedges_json, scenarios_json, scenario_id, solver, api_token,
                   calls, exported, peer,
                   groups, coef_den, scale, num_variables, submissions, poly_file,
                   remote_status, job_resp, best_i, sol_int, chosen, result>>

\* sum(len(g.keys) for g in groups)
RECURSIVE SumKeys(_, _)
SumKeys(gs, i) == IF i > Len(gs) THEN 0 ELSE Len(gs[i].keys) + SumKeys(gs, i + 1)

\* the rescale and num_variables (lines 591-601)
RescaleStep ==
    /\ pc = "poly"
    /\ IF NeedsRescale(pb.terms)
       THEN /\ scale' = <<MaxAbs(pb.terms), TARGET_MAX_COEF_ABS>>
            /\ pb' = [pb EXCEPT !.terms = RescaleTerms(pb.terms, coef_den, MaxAbs(pb.terms))]
            /\ coef_den' = MaxAbs(pb.terms)
       ELSE /\ scale' = <<UNIT, UNIT>>
            /\ UNCHANGED <<pb, coef_den>>
    /\ num_variables' = SumKeys(groups, 1)
    /\ pc' = "rescaled"
    /\ UNCHANGED <<pools_json, hedges_json, scenarios_json, scenario_id, solver, api_token,
                   calls, exported, peer,
                   exc, groups, meta, submissions, poly_file,
                   remote_status, job_resp, best_i, sol_int, chosen, result>>

\* run_dirac3 (line 605): export, upload, one process_job, the status check
RunDirac3 ==
    /\ pc = "rescaled"
    /\ IF ~api_token
       THEN /\ pc' = "error"
            /\ exc' = "RuntimeError"
            /\ UNCHANGED <<pb, submissions, poly_file, remote_status, job_resp>>
       ELSE \E resp \in SolverResponses(solver, groups, num_variables) :
              /\ poly_file' = ToPolynomialFile(pb, num_variables)
              /\ pb' = SelfAfterExport(pb)
              /\ submissions' = submissions + 1
              /\ remote_status' = resp.status
              /\ IF JobFailed(resp)
                 THEN /\ pc' = "error"
                      /\ exc' = "RuntimeError"
                      /\ UNCHANGED job_resp
                 ELSE /\ pc' = "responded"
                      /\ job_resp' = resp
                      /\ UNCHANGED exc
    /\ UNCHANGED <<pools_json, hedges_json, scenarios_json, scenario_id, solver, api_token,
                   calls, exported, peer,
                   groups, coef_den, meta, scale, num_variables,
                   best_i, sol_int, chosen, result>>

\* the best sample and decode_argmax (lines 614-628); min() of no energies raises
DecodeStep ==
    /\ pc = "responded"
    /\ LET energies == job_resp.results.energies
           solutions == job_resp.results.solutions
       IN IF energies = <<>>
          THEN /\ pc' = "error"
               /\ exc' = "ValueError"
               /\ UNCHANGED <<best_i, sol_int, chosen>>
          ELSE LET b == ArgMinFrom(energies, 2, 1)
               IN /\ best_i' = b
                  /\ sol_int' = solutions[b]
                  /\ chosen' = DecodeArgmax(groups, solutions[b])
                  /\ pc' = "decoded"
                  /\ UNCHANGED exc
    /\ UNCHANGED <<pools_json, hedges_json, scenarios_json, scenario_id, solver, api_token,
                   calls, exported, peer,
                   groups, pb, coef_den, meta, scale, num_variables, submissions, poly_file,
                   remote_status, job_resp, result>>

\* breakdown, baseline and the result record (lines 631-696)
ScoreStep ==
    /\ pc = "decoded"
    /\ LET breakdown == ComputeBreakdown(pools_json, hedges_json, scenarios_json, scenario_id, chosen)
           baseline_choice == ComputeBaseline(pools_json, scenarios_json, scenario_id, chosen)
           baseline_breakdown == ComputeBreakdown(pools_json, hedges_json, scenarios_json,
                                                  scenario_id, baseline_choice)
       IN result' =
            [decision |-> chosen,
             objective_value |-> job_resp.results.energies[best_i],
             coef_rescale |-> scale,
             meta |-> meta,
             score_breakdown |-> breakdown,
             baseline_decision |-> baseline_choice,
             baseline_score_breakdown |-> baseline_breakdown,
             net_apr_improvement |-> breakdown.net_apr.estimated_net_apr
                                       - baseline_breakdown.net_apr.estimated_net_apr]
    /\ pc' = "done"
    /\ UNCHANGED <<pools_json, hedges_json, scenarios_json, scenario_id, solver, api_token,
                   calls, exported, peer,
                   exc, groups, pb, coef_den, meta, scale, num_variables, submissions, poly_file,
                   remote_status, job_resp, best_i, sol_int, chosen>>

Next ==
    \/ BuildVariablesStep
    \/ BuildPolynomialStep
    \/ RescaleStep
    \/ RunDirac3
    \/ DecodeStep
    \/ ScoreStep

Spec == Init /\ [][Next]_vars

\* every 0/1 vector decoded against a few catalogs
InitDecode == InitWith(DecodeCatalogs, {"CALM"}, {"vectors"}, {TRUE})

SpecDecode == InitDecode /\ [][Next]_vars

\* the runs on the wide catalog
InitWide == InitWith({WideCatalog}, {"CALM", "STRESS"}, {"few"}, {TRUE})

SpecWide == InitWide /\ [][Next]_vars

-----------------------------------------------------------------------------
(* Two requests in flight: server.py's optimize calls run_optimization once per
   request, each with the pools_json and hedges_json built for that request.
   The variables above are the locals of the request that is running, peer
   holds the locals of the request that is waiting, and a switch between the
   two can happen before and after every step. *)

\* the arguments and locals of the running call of run_optimization
Frame ==
    [pools_json |-> pools_json, hedges_json |-> hedges_json, scenario_id |-> scenario_id,
     solver |-> solver, pc |-> pc, exc |-> exc, groups |-> groups, pb |-> pb,
     coef_den |-> coef_den, meta |-> meta, scale |-> scale, num_variables |-> num_variables,
     submissions |-> submissions, poly_file |-> poly_file, remote_status |-> remote_status,
     job_resp |-> job_resp, best_i |-> best_i, sol_int |-> sol_int, chosen |-> chosen,
     result |-> result]

\* the variant with one PolyBuilder shared by the requests
ResumedSharedBuilder(saved, running) == [saved EXCEPT !.pb = running.pb]

\* what a request resumes with: its own locals ("pb, meta =
\* build_energy_polynomial(...)" binds a local of the call)
Resumed(saved, running) == saved

\* the waiting request runs on, the running one waits
SwitchRequest ==
    /\ peer # <<>>
    /\ peer' = Frame
    /\ \A f \in {Resumed(peer, Frame)} :
          /\ pools_json' = f.pools_json
          /\ hedges_json' = f.hedges_json
          /\ scenario_id' = f.scenario_id
          /\ solver' = f.solver
          /\ pc' = f.pc
          /\ exc' = f.exc
          /\ groups' = f.groups
          /\ pb' = f.pb
          /\ coef_den' = f.coef_den
          /\ meta' = f.meta
          /\ scale' = f.scale
          /\ num_variables' = f.num_variables
          /\ submissions' = f.submissions
          /\ poly_file' = f.poly_file
          /\ remote_status' = f.remote_status
          /\ job_resp' = f.job_resp
          /\ best_i' = f.best_i
          /\ sol_int' = f.sol_int
          /\ chosen' = f.chosen
          /\ result' = f.result
    /\ UNCHANGED <<scenarios_json, api_token, calls, exported>>

\* two requests received, each with its own catalog (with and without tenor
\* tiers) and scenario: the first about to run, the second with the locals of a
\* call that has not taken a step
InitPair ==
    LET cats == {<<PoolsJson(profile, MIN_POOLS, shape), HedgesJson(shape)>> :
                    profile \in {"plain", "costly"},
                    shape \in {Shape(<<SizeM>>, <<RebWeekly>>, <<>>, HedgeTypes),
                               Shape(<<SizeM>>, <<RebWeekly>>, <<[key |-> "7D"], [key |-> "14D"]>>,
                                     HedgeTypes)}}
    IN /\ InitRun(cats, {"CALM", "STRESS"}, {"single"}, {TRUE})
       /\ \E cat \in cats, sid \in {"CALM", "STRESS", "UNKNOWN"} :
             peer = [pools_json |-> cat[1], hedges_json |-> cat[2], scenario_id |-> sid,
                     solver |-> "single", pc |-> "start", exc |-> "none", groups |-> <<>>,
                     pb |-> NoBuilder, coef_den |-> UNIT, meta |-> NoMeta, scale |-> <<0, 0>>,
                     num_variables |-> 0, submissions |-> 0, poly_file |-> <<>>,
                     remote_status |-> "", job_resp |-> NoResponse, best_i |-> 0,
                     sol_int |-> <<>>, chosen |-> <<>>, result |-> <<>>]

NextPair ==
    \/ Next
    \/ SwitchRequest

SpecPair == InitPair /\ [][NextPair]_vars

-----------------------------------------------------------------------------
(* A PolyBuilder used by a direct caller *)

\* a direct caller makes at most MaxCalls add calls on one builder
MaxCalls == 3

\* the max_degree the builders are constructed with, as build_energy_polynomial does
BuilderDegrees == {4, 5}

\* the monomials passed to add: the empty tuple, tuples of one and two indices in
\* both orders, and a tuple of five indices, one more than the lower max_degree
CallMonomials == {<<>>, <<1>>, <<1, 2>>, <<2, 1>>, <<2, 1, 2, 1, 2>>}

\* the coefficients passed to add, in thousandths; 0 is the only magnitude below
\* the epsilon
CallCoefs == {0 - UNIT, 0, UNIT}

\* the num_variables arguments of to_polynomial_file
ExportArgs == {2, 3}

\* the catalog of a run that never starts
NoCatalog ==
    <<[pools |-> <<>>, size_buckets |-> <<>>, rebalance_buckets |-> <<>>],
      HedgesJson(Shape(<<>>, <<>>, <<>>, <<>>))>>

\* a fresh PolyBuilder(max_degree) in the hands of a direct caller
InitBuilder ==
    /\ pools_json = NoCatalog[1]
    /\ hedges_json = NoCatalog[2]
    /\ scenarios_json = Scenarios
    /\ scenario_id = "CALM"
    /\ solver = "none"
    /\ api_token = FALSE
    /\ pc = "builder"
    /\ exc = "none"
    /\ groups = <<>>
    /\ \E d \in BuilderDegrees : pb = NewPolyBuilder(d)
    /\ coef_den = UNIT
    /\ meta = NoMeta
    /\ scale = <<0, 0>>
    /\ num_variables = 0
    /\ submissions = 0
    /\ poly_file = <<>>
    /\ remote_status = ""
    /\ job_resp = NoResponse
    /\ best_i = 0
    /\ sol_int = <<>>
    /\ chosen = <<>>
    /\ result = <<>>
    /\ calls = <<>>
    /\ exported = <<>>
    /\ peer = <<>>

\* one call of add by a caller that carries on after an error: pb.exc is the
\* exception this call raised, "none" if it returned
CallAdd(b, monomial, coef) == PolyAdd([b EXCEPT !.exc = "none"], monomial, coef)

\* what the call did: the exception it raised, "stored" if it changed self.terms,
\* "returned" if it returned without changing them
Outcome(before, after) ==
    IF after.exc # "none" THEN after.exc
    ELSE IF after.terms # before.terms THEN "stored"
    ELSE "returned"

\* pb.add(monomial, coef)
AddCall ==
    /\ pc = "builder"
    /\ Len(calls) < MaxCalls
    /\ \E monomial \in CallMonomials, coef \in CallCoefs :
          /\ pb' = CallAdd(pb, monomial, coef)
          /\ calls' = Append(calls, [monomial |-> monomial, coef |-> coef,
                                     outcome |-> Outcome(pb, CallAdd(pb, monomial, coef))])
    /\ exported' = <<>>
    /\ UNCHANGED <<pools_json, hedges_json, scenarios_json, scenario_id, solver, api_token,
                   pc, exc, groups, coef_den, meta, scale, num_variables, submissions,
                   poly_file, remote_status, job_resp, best_i, sol_int, chosen, result, peer>>

\* pb.to_polynomial_file(file_name, n); exported keeps the last two outputs
ExportCall ==
    /\ pc = "builder"
    /\ \E n \in ExportArgs :
          LET out == [n |-> n, file |-> ToPolynomialFile(pb, n)]
          IN exported' = IF Len(exported) = 2 THEN <<exported[2], out>> ELSE Append(exported, out)
    /\ pb' = SelfAfterExport(pb)
    /\ UNCHANGED <<pools_json, hedges_json, scenarios_json, scenario_id, solver, api_token,
                   pc, exc, groups, coef_den, meta, scale, num_variables, submissions,
                   poly_file, remote_status, job_resp, best_i, sol_int, chosen, result, calls, peer>>

NextBuilder ==
    \/ AddCall
    \/ ExportCall

SpecBuilder == InitBuilder /\ [][NextBuilder]_vars

\* the runs of run_optimization together with the builders used directly
InitAll == Init \/ InitBuilder

NextAll ==
    \/ Next
    \/ NextBuilder

SpecAll == InitAll /\ [][NextAll]_vars

-----------------------------------------------------------------------------
(* Properties *)

\* the states in which the layout has been built
LayoutBuilt == pc \in {"layout", "poly", "rescaled", "responded", "decoded", "done"}

\* the group names build_variables produces for this catalog, in order
ExpectedNames ==
    IF Len(hedges_json.tenor_buckets) > 0
    THEN <<"pool", "hedge", "size", "rebalance", "tenor">>
    ELSE <<"pool", "hedge", "size", "rebalance">>

\* the first variable index of the i-th group when blocks are laid end to end from 1
RECURSIVE BlockStart(_, _)
BlockStart(gs, i) == IF i = 1 THEN 1 ELSE BlockStart(gs, i - 1) + Len(gs[i - 1].keys)

\* C7: the variables of the groups are contiguous blocks of 1-based indices, in
\* the order pool, hedge, size, rebalance, then tenor when tenor tiers exist;
\* the blocks are pairwise disjoint and their union is exactly 1..num_variables,
\* and num_variables is the sum of the key counts.
C7_LayoutPartition ==
    LayoutBuilt =>
        /\ [i \in 1..Len(groups) |-> groups[i].name] = ExpectedNames
        /\ \A i \in 1..Len(groups) :
              /\ Len(groups[i].var_indices) = Len(groups[i].keys)
              /\ \A k \in 1..Len(groups[i].keys) :
                    groups[i].var_indices[k] = BlockStart(groups, i) + k - 1
        /\ \A i, j \in 1..Len(groups) :
              i # j => Range(groups[i].var_indices) \cap Range(groups[j].var_indices) = {}
        /\ pc \in {"rescaled", "responded", "decoded", "done"} =>
              /\ num_variables = SumKeys(groups, 1)
              /\ UNION {Range(groups[i].var_indices) : i \in 1..Len(groups)} = 1..num_variables

\* C7 witness: a layout with a tenor group and several keys in every group
C7_Witness ==
    /\ pc = "rescaled"
    /\ Len(groups) = 5
    /\ \A i \in 1..Len(groups) : Len(groups[i].keys) >= 2

\* C8: with fewer than three pools (none included) the run fails with a
\* configuration error in build_variables: no polynomial is built, no job is
\* submitted and no decision is returned.
C8_DegenerateCatalog ==
    Len(pools_json.pools) < 3 =>
        /\ pc \in {"start", "error"}
        /\ pc = "error" => exc = "ValueError"
        /\ groups = <<>>
        /\ pb = NoBuilder
        /\ submissions = 0
        /\ poly_file = <<>>
        /\ chosen = <<>>
        /\ result = <<>>

\* C8 witness: the failure has happened for a catalog of at most two pools
C8_Witness ==
    /\ Len(pools_json.pools) \in {0, 1, 2}
    /\ pc = "error"
    /\ exc = "ValueError"

\* C9: when the remote job's status is not completed the run fails: no sample is
\* decoded, no breakdown is computed and no decision is returned.
C9_SolverFailure ==
    (remote_status # "" /\ remote_status # COMPLETED) =>
        /\ pc = "error"
        /\ exc = "RuntimeError"
        /\ job_resp = NoResponse
        /\ best_i = 0
        /\ sol_int = <<>>
        /\ chosen = <<>>
        /\ result = <<>>

\* C9 witness: a submitted job came back with another status
C9_Witness ==
    /\ submissions = 1
    /\ remote_status # ""
    /\ remote_status # COMPLETED
    /\ pc = "error"

\* the first position of the largest value of a group's variables in the vector
FirstMax(g, vec) ==
    CHOOSE k \in 1..Len(g.var_indices) :
        /\ \A m \in 1..Len(g.var_indices) : vec[g.var_indices[m]] <= vec[g.var_indices[k]]
        /\ \A m \in 1..(k - 1) : vec[g.var_indices[m]] < vec[g.var_indices[k]]

\* C10: decoding is total: for any 0/1 vector every group name is mapped to one
\* of that group's keys, the key at the first position of the largest value,
\* also when the group has no 1 or several 1s.
C10_DecodeTotal ==
    pc \in {"decoded", "done"} =>
        /\ DOMAIN chosen = {groups[i].name : i \in 1..Len(groups)}
        /\ \A i \in 1..Len(groups) :
              /\ chosen[groups[i].name] \in Range(groups[i].keys)
              /\ chosen[groups[i].name] = groups[i].keys[FirstMax(groups[i], sol_int)]

\* C10 witness: a decoded vector with a group of no 1 and a group of several 1s
C10_Witness ==
    /\ pc = "decoded"
    /\ \E i \in 1..Len(groups) : \A k \in Range(groups[i].var_indices) : sol_int[k] = 0
    /\ \E i \in 1..Len(groups) :
          /\ sol_int[groups[i].var_indices[1]] = 0
          /\ Cardinality({k \in Range(groups[i].var_indices) : sol_int[k] = 1}) >= 2

\* C6: the baseline keeps the optimized size, rebalance and tenor, forces the
\* hedge to "none", and takes the pool of highest scenario-adjusted gross yield,
\* the first such pool in catalog order when several share it; its pool and
\* hedge are fixed by the catalog and the scenario alone.
C6_Baseline ==
    pc = "done" =>
        LET bl == result.baseline_decision
            mult == PickScenario(scenarios_json, scenario_id).multipliers
            pools == pools_json.pools
        IN /\ DOMAIN bl = DOMAIN chosen
           /\ bl["hedge"] = "none"
           /\ \A k \in DOMAIN chosen \ {"pool", "hedge"} : bl[k] = chosen[k]
           /\ \E i \in 1..Len(pools) :
                 /\ bl["pool"] = pools[i].pool_id
                 /\ \A j \in 1..Len(pools) : GrossApr(pools[j], mult) <= GrossApr(pools[i], mult)
                 /\ \A j \in 1..(i - 1) : GrossApr(pools[j], mult) < GrossApr(pools[i], mult)

\* C6 witness: a finished run whose decision differs from the baseline in pool and
\* hedge, on a catalog in which two pools share the highest gross yield
C6_Witness ==
    /\ pc = "done"
    /\ chosen["pool"] # result.baseline_decision["pool"]
    /\ chosen["hedge"] # "none"
    /\ LET mult == PickScenario(scenarios_json, scenario_id).multipliers
           pools == pools_json.pools
       IN \E i, j \in 1..Len(pools) :
             /\ i < j
             /\ GrossApr(pools[i], mult) = GrossApr(pools[j], mult)
             /\ \A k \in 1..Len(pools) : GrossApr(pools[k], mult) <= GrossApr(pools[i], mult)

\* the catalog of the end-to-end scenario: P1 (10%, no IL), P2 (14%, IL 0.3),
\* P3 (6%, no IL), one size tier and one rebalance tier of multiplier 1.0, the
\* hedge types none and put (cost 6%, IL multiplier 0.65), no tenor tiers
E2EShape == Shape(<<SizeM>>, <<RebWeekly>>, <<>>, HedgeTypes)
E2ECatalog == <<PoolsJson("plain", 3, E2EShape), HedgesJson(E2EShape)>>

\* x has the least energy of all assignments of the submitted polynomial
GroundState(x) ==
    LET ex == Energy(pb.terms, x)
    IN \A y \in SUBSET (1..num_variables) : ex <= Energy(pb.terms, y)

\* C5: on the end-to-end catalog under a scenario whose multipliers are all 1.0,
\* when the solver returns a minimum-energy assignment, the decision is pool P1
\* with hedge none.
C5_EndToEnd ==
    (/\ pc \in {"decoded", "done"}
     /\ <<pools_json, hedges_json>> = E2ECatalog
     /\ scenario_id = "CALM"
     /\ GroundState(Ones(sol_int)))
        => (chosen["pool"] = "P1" /\ chosen["hedge"] = "none")

\* C5 witness: the end-to-end run has finished on a minimum-energy sample
C5_Witness ==
    /\ pc = "done"
    /\ <<pools_json, hedges_json>> = E2ECatalog
    /\ scenario_id = "CALM"
    /\ GroundState(Ones(sol_int))
    /\ result.decision["pool"] = "P1"

\* the energy of the one-hot constraint terms of the group g alone, at the
\* assignment x of the group's variables
GroupConstraintEnergy(g, lam, x) == Energy(OneHotGroup(NewPolyBuilder(2), g, lam).terms, x)

\* C3 as stated: for a group of two or more variables the constraint terms alone
\* contribute 0 when exactly one variable is 1 and a positive amount otherwise.
C3_OneHotPenaltyAsStated ==
    pc = "poly" =>
        \A i \in 1..Len(groups) :
            Len(groups[i].keys) >= 2 =>
                \A x \in SUBSET Range(groups[i].var_indices) :
                    IF Cardinality(x) = 1
                    THEN GroupConstraintEnergy(groups[i], meta.lambda, x) = 0
                    ELSE GroupConstraintEnergy(groups[i], meta.lambda, x) > 0

\* C3: for a group of two or more variables the constraint terms alone, which
\* leave out the constant lambda of (sum - 1)^2, contribute -lambda when exactly
\* one variable of the group is 1 and strictly more than -lambda when none or
\* several are 1: with the constant added back, 0 and a positive amount.
C3_OneHotPenalty ==
    pc = "poly" =>
        /\ meta.lambda > 0
        /\ \A i \in 1..Len(groups) :
              Len(groups[i].keys) >= 2 =>
                  \A x \in SUBSET Range(groups[i].var_indices) :
                      IF Cardinality(x) = 1
                      THEN GroupConstraintEnergy(groups[i], meta.lambda, x) + meta.lambda = 0
                      ELSE GroupConstraintEnergy(groups[i], meta.lambda, x) + meta.lambda > 0

\* C3 witness: a built polynomial with a group of three or more variables and a
\* group of exactly two
C3_Witness ==
    /\ pc = "poly"
    /\ meta.lambda > 0
    /\ \E i \in 1..Len(groups) : Len(groups[i].keys) >= 3
    /\ \E i \in 1..Len(groups) : Len(groups[i].keys) = 2

\* C2 on the catalogs of Spec: in the polynomial build_energy_polynomial returns,
\* every assignment that breaks the one-hot constraint of some group has strictly
\* higher energy than every assignment that selects exactly one variable in
\* every group.
C2_OneHotDominance ==
    pc = "poly" =>
        LET n == SumKeys(groups, 1)
            valid == ValidAssignments(groups, n)
            valid_energies == {Energy(pb.terms, y) : y \in valid}
        IN \A x \in (SUBSET (1..n)) \ valid :
              LET ex == Energy(pb.terms, x)
              IN \A ey \in valid_energies : ex > ey

\* the assignments that select, in every group, the first variable only, the
\* last variable only, every variable, or every variable but the first
RECURSIVE BlockAssignments(_, _)
BlockAssignments(gs, i) ==
    IF i > Len(gs) THEN {{}}
    ELSE LET all == Range(gs[i].var_indices)
             first == gs[i].var_indices[1]
             last == gs[i].var_indices[Len(gs[i].var_indices)]
         IN {s \cup t : s \in {{first}, {last}, all, all \ {first}},
                         t \in BlockAssignments(gs, i + 1)}

\* C2 for the block assignments: every block assignment that breaks the one-hot
\* constraint of some group has strictly higher energy than every block
\* assignment that selects exactly one variable in every group.
C2_BlockDominance ==
    pc = "poly" =>
        LET blocks == BlockAssignments(groups, 1)
            valid == {y \in blocks : \A i \in 1..Len(groups) : OneHotIn(groups[i], y)}
            valid_energies == {Energy(pb.terms, y) : y \in valid}
        IN \A x \in blocks \ valid :
              LET ex == Energy(pb.terms, x)
              IN \A ey \in valid_energies : ex > ey

\* C2 witness: a built polynomial over groups of several variables whose
\* objective terms reach degree five and include a negative hedge-cost term
C2_Witness ==
    /\ pc = "poly"
    /\ Len(groups) = 5
    /\ \A i \in 1..Len(groups) : Len(groups[i].keys) >= 2
    /\ \E i \in 1..Len(pb.terms) : Len(pb.terms[i].mono) = 5 /\ pb.terms[i].coef > 0
    /\ \E i \in 1..Len(pb.terms) : Len(pb.terms[i].mono) = 3 /\ pb.terms[i].coef > 0
    /\ \E i \in 1..Len(pb.terms) : Len(pb.terms[i].mono) = 4 /\ pb.terms[i].coef < 0

\* C4: the rescale divides every coefficient by one strictly positive factor:
\* for any two assignments x and y, x has no more energy than y in the rescaled
\* polynomial exactly when it has no more in the unscaled one, and the same
\* assignments minimise both. Each pair <<e, e2>> holds the energy of one
\* assignment before and after the rescale step.
C4_RescalePreservesOrder ==
    [][(pc = "poly" /\ pc' = "rescaled") =>
          /\ scale'[1] > 0
          /\ scale'[2] > 0
          /\ coef_den > 0
          /\ coef_den' > 0
          /\ \A pairs \in {{<<Energy(pb.terms, x), Energy(pb'.terms, x)>> :
                               x \in SUBSET (1..num_variables')}} :
                /\ \A s, t \in pairs : (s[1] <= t[1]) <=> (s[2] <= t[2])
                /\ \A s \in pairs :
                      (\A t \in pairs : s[1] <= t[1]) <=> (\A t \in pairs : s[2] <= t[2])]_vars

\* C4 witness: the rescale step has changed the coefficients
C4_Witness ==
    /\ pc = "rescaled"
    /\ scale[1] > scale[2]
    /\ MaxAbs(pb.terms) = (TARGET_MAX_COEF_ABS \div UNIT) * coef_den

\* the energy numerator e of the submitted polynomial multiplied by the rescale
\* factor, in thousandths: (e / coef_den) * (scale[1] / scale[2]), where the
\* rescale step leaves coef_den = scale[1] and scale[2] a whole number of units
Unscaled(e) == e \div (scale[2] \div UNIT)

\* the energy of the one-hot constraint terms of every group at the assignment x
ConstraintEnergy(x) == Energy(OneHotLoop(NewPolyBuilder(2), groups, meta.lambda, 1).terms, x)

\* the decision that the valid assignment x encodes
DecisionOf(x) == DecodeArgmax(groups, VectorOf(x, num_variables))

\* C1 as stated: for every valid one-hot assignment, the energy of the objective
\* terms (the total less the one-hot constraint terms), multiplied by the rescale
\* factor, equals total_penalties_apr - total_gross_apr of the breakdown of the
\* decision the assignment encodes.
C1_BreakdownMatchesPolynomial ==
    pc = "rescaled" =>
        /\ coef_den = scale[1]
        /\ \A x \in ValidAssignments(groups, num_variables) :
              LET bd == ComputeBreakdown(pools_json, hedges_json, scenarios_json,
                                         scenario_id, DecisionOf(x))
              IN /\ Energy(pb.terms, x) % (scale[2] \div UNIT) = 0
                 /\ Unscaled(Energy(pb.terms, x)) - ConstraintEnergy(x)
                      = bd.penalties_and_costs.total_penalties_apr - bd.rewards.total_gross_apr

\* C11: for every non-empty batch of samples the decoded solution vector is the
\* one stored at the position of an energy that no other energy of the batch is
\* below, the first such position when several share it, and objective_value
\* reports the energy at that position.
C11_LowestEnergySample ==
    pc \in {"decoded", "done"} =>
        LET energies == job_resp.results.energies
            solutions == job_resp.results.solutions
        IN /\ best_i \in 1..Len(energies)
           /\ \A j \in 1..Len(energies) : energies[best_i] <= energies[j]
           /\ \A j \in 1..(best_i - 1) : energies[j] > energies[best_i]
           /\ sol_int = solutions[best_i]
           /\ \A i \in 1..Len(groups) :
                 chosen[groups[i].name] = groups[i].keys[FirstMax(groups[i], solutions[best_i])]
           /\ pc = "done" => result.objective_value = energies[best_i]

\* C11 witness: a finished run on a batch whose lowest energy is shared by two
\* positions that hold different vectors
C11_Witness ==
    /\ pc = "done"
    /\ Len(job_resp.results.energies) >= 2
    /\ job_resp.results.energies[1] = job_resp.results.energies[2]
    /\ \A j \in 1..Len(job_resp.results.energies) :
          job_resp.results.energies[1] <= job_resp.results.energies[j]
    /\ job_resp.results.solutions[1] # job_resp.results.solutions[2]
    /\ DecodeArgmax(groups, job_resp.results.solutions[1])
         # DecodeArgmax(groups, job_resp.results.solutions[2])

\* the step is an add call of a direct caller
IsAddCall == pc = "builder" /\ Len(calls') = Len(calls) + 1

\* the last add call made
LastCall == calls[Len(calls)]

C13_DegreeExceededFails ==
    [][(IsAddCall /\ Len(calls'[Len(calls')].monomial) > pb.max_degree) =>
          (pb'.exc # "none" /\ pb'.terms = pb.terms)]_vars

\* the stored terms as the dict they are: the set of its items
TermMap(terms) == {<<terms[i].mono, terms[i].coef>> : i \in 1..Len(terms)}

\* the indices of the tuple are in ascending (non-decreasing) order
Ascending(mono) == \A k \in 1..(Len(mono) - 1) : mono[k] <= mono[k + 1]

\* the two tuples hold the same indices, each as often
SameIndices(m1, m2) ==
    /\ Len(m1) = Len(m2)
    /\ \A v \in Range(m1) \cup Range(m2) :
          Cardinality({k \in 1..Len(m1) : m1[k] = v}) = Cardinality({k \in 1..Len(m2) : m2[k] = v})

\* the sum of the coefficients of the accepted add calls from position k on whose
\* monomial holds the indices of mono
RECURSIVE SumAdded(_, _, _)
SumAdded(cs, mono, k) ==
    IF k > Len(cs) THEN 0
    ELSE (IF cs[k].outcome = "stored" /\ SameIndices(cs[k].monomial, mono) THEN cs[k].coef ELSE 0)
         + SumAdded(cs, mono, k + 1)

\* the builder after the add calls cs from position k on, made on the builder b
RECURSIVE Replay(_, _, _)
Replay(b, cs, k) ==
    IF k > Len(cs) THEN b ELSE Replay(CallAdd(b, cs[k].monomial, cs[k].coef), cs, k + 1)

\* the calls with the first two exchanged, and with the first moved to the end:
\* the two reorderings every other one is made of
SwapFirst(cs) == IF Len(cs) < 2 THEN cs ELSE <<cs[2], cs[1]>> \o SubSeq(cs, 3, Len(cs))
Rotate(cs) == IF Len(cs) < 2 THEN cs ELSE Append(SubSeq(cs, 2, Len(cs)), cs[1])

C15_NoConstantTerm ==
    /\ \A i \in 1..Len(pb.terms) : Len(pb.terms[i].mono) >= 1
    /\ \A e \in 1..Len(exported) :
          \A i \in 1..Len(exported[e].file.data) :
              \E k \in 1..Len(exported[e].file.data[i].idx) : exported[e].file.data[i].idx[k] # 0
    /\ submissions > 0 =>
          \A i \in 1..Len(poly_file.data) :
              \E k \in 1..Len(poly_file.data[i].idx) : poly_file.data[i].idx[k] # 0

\* C15 witness: a builder that was given an empty monomial with a coefficient
\* above the epsilon, holds terms and was exported
C15_Witness ==
    /\ pc = "builder"
    /\ \E k \in 1..Len(calls) : calls[k].monomial = <<>> /\ Abs(calls[k].coef) >= EPS
    /\ pb.terms # <<>>
    /\ exported # <<>>

\* C16 as stated: after any sequence of add calls, contributions to one monomial
\* that cancel each other included, no stored term has a coefficient of magnitude
\* below the epsilon.
C16_NearZeroDropped ==
    pc = "builder" => \A i \in 1..Len(pb.terms) : Abs(pb.terms[i].coef) >= EPS

\* the entry is the fixed-width form of the stored term: its value is the term's
\* coefficient and its index list has length max_degree, zeros on the left and
\* then the term's indices, which are positive and non-decreasing
FixedWidthEntry(entry, term, max_degree) ==
    /\ entry.val = term.coef
    /\ Len(entry.idx) = max_degree
    /\ Len(term.mono) <= max_degree
    /\ \A k \in 1..(max_degree - Len(term.mono)) : entry.idx[k] = 0
    /\ \A k \in 1..Len(term.mono) :
          /\ entry.idx[max_degree - Len(term.mono) + k] = term.mono[k]
          /\ term.mono[k] >= 1
    /\ \A k \in 1..(Len(entry.idx) - 1) : entry.idx[k] <= entry.idx[k + 1]

\* C17: for any accumulated polynomial the export holds exactly one entry per
\* stored monomial, with that monomial's coefficient and an index list of length
\* exactly max_degree, zeros on the left followed by the monomial's indices in
\* non-decreasing order; every stored monomial's degree is at most max_degree.
C17_ExportFixedWidth ==
    pc = "builder" =>
        /\ \A i \in 1..Len(pb.terms) : Len(pb.terms[i].mono) <= pb.max_degree
        /\ \A e \in 1..Len(exported) :
              /\ exported[e].file.max_degree = pb.max_degree
              /\ Len(exported[e].file.data) = Len(pb.terms)
              /\ \A i \in 1..Len(pb.terms) :
                    FixedWidthEntry(exported[e].file.data[i], pb.terms[i], pb.max_degree)

\* C17 witness: an export of a builder that holds a monomial of degree max_degree
\* and a monomial of lower degree whose indices were given in descending order
C17_Witness ==
    /\ pc = "builder"
    /\ exported # <<>>
    /\ \E i \in 1..Len(pb.terms) : Len(pb.terms[i].mono) = pb.max_degree
    /\ \E i \in 1..Len(pb.terms) : Len(pb.terms[i].mono) = 2
    /\ \E k \in 1..Len(calls) : calls[k].monomial = <<2, 1>> /\ calls[k].outcome = "stored"

\* the step is a to_polynomial_file call of a direct caller
IsExportCall == pc = "builder" /\ calls' = calls /\ exported' # exported

StoredDegrees == {Len(pb.terms[i].mono) : i \in 1..Len(pb.terms)}

\* C19 as stated: in the submitted file min_degree is the smallest degree of any
\* stored monomial and max_degree is the largest degree of any stored monomial.
C19_DegreesDerived ==
    submissions > 0 =>
        /\ poly_file.min_degree \in StoredDegrees
        /\ \A d \in StoredDegrees : poly_file.min_degree <= d
        /\ poly_file.max_degree \in StoredDegrees
        /\ \A d \in StoredDegrees : poly_file.max_degree >= d

\* C19: in the submitted file min_degree is the smallest degree of any stored
\* monomial, and max_degree is the degree the builder was configured with, 4
\* without a tenor group and 5 with one, which no stored monomial exceeds.
C19_DegreesExported ==
    submissions > 0 =>
        /\ poly_file.min_degree \in StoredDegrees
        /\ \A d \in StoredDegrees : poly_file.min_degree <= d
        /\ poly_file.max_degree = (IF \E i \in 1..Len(groups) : groups[i].name = "tenor" THEN 5 ELSE 4)
        /\ poly_file.max_degree = meta.max_degree
        /\ \A d \in StoredDegrees : poly_file.max_degree >= d

\* C19 witness: a submitted polynomial with a tenor group whose largest stored
\* degree is below the configured 5
C19_Witness ==
    /\ submissions > 0
    /\ \E i \in 1..Len(groups) : groups[i].name = "tenor"
    /\ \A d \in StoredDegrees : d < 5
    /\ 4 \in StoredDegrees

\* C20: the configured maximum degree is 4 when the layout has no tenor group and
\* 5 when it has one; every stored monomial has at most that degree, and the
\* building of the terms raises no error: a run that has its layout and fails
\* before the submission with a ValueError fails on the scenario lookup.
C20_DegreeBound ==
    /\ pc \in {"poly", "rescaled", "responded", "decoded", "done"} =>
          /\ meta.max_degree = (IF \E i \in 1..Len(groups) : groups[i].name = "tenor" THEN 5 ELSE 4)
          /\ pb.max_degree = meta.max_degree
          /\ \A d \in StoredDegrees : d <= meta.max_degree
    /\ (pc = "error" /\ groups # <<>> /\ exc = "ValueError" /\ job_resp = NoResponse)
          => ~HasScenario(scenarios_json, scenario_id)

\* C20 witness: a built polynomial with a tenor group and a stored monomial of
\* degree 5
C20_Witness ==
    /\ pc = "poly"
    /\ \E i \in 1..Len(groups) : groups[i].name = "tenor"
    /\ 5 \in StoredDegrees

\* C20 witness without tenor tiers: a built polynomial whose largest degree is 4
C20_WitnessNoTenor ==
    /\ pc = "poly"
    /\ Len(hedges_json.tenor_buckets) = 0
    /\ 4 \in StoredDegrees

C21_WitnessUnchanged ==
    /\ pc = "rescaled"
    /\ scale[1] = scale[2]
    /\ coef_den = UNIT
    /\ pb.terms # <<>>
    /\ \A i \in 1..Len(pb.terms) : Abs(pb.terms[i].coef) <= TARGET_MAX_COEF_ABS

\* the decision run_optimization makes of the response the request f received
AloneDecision(f) ==
    DecodeArgmax(BuildVariables(f.pools_json, f.hedges_json),
                 f.job_resp.results.solutions[ArgMinFrom(f.job_resp.results.energies, 2, 1)])

\* the request f has, as far as it has come, what run_optimization makes of its
\* arguments when it is the only request: the layout, the polynomial, the
\* rescaled term map, the rescale factor, and the decision for its response
Isolated(f) ==
    LET layout == BuildVariables(f.pools_json, f.hedges_json)
        rescaled(poly) == IF NeedsRescale(poly) THEN RescaleTerms(poly, UNIT, MaxAbs(poly)) ELSE poly
        factor(poly) == IF NeedsRescale(poly) THEN <<MaxAbs(poly), TARGET_MAX_COEF_ABS>>
                        ELSE <<UNIT, UNIT>>
    IN /\ f.pc \in {"layout", "poly", "rescaled", "responded", "decoded", "done"}
             => f.groups = layout
       /\ (f.pc \in {"poly", "rescaled", "responded", "decoded", "done"}
              \/ (f.pc = "error" /\ f.scale # <<0, 0>>))
             => \A poly \in {BuildEnergyPolynomial(f.pools_json, f.hedges_json, scenarios_json,
                                                    f.scenario_id, layout).pb.terms} :
                   IF f.pc = "poly"
                   THEN TermMap(f.pb.terms) = TermMap(poly)
                   ELSE /\ TermMap(f.pb.terms) = TermMap(rescaled(poly))
                        /\ f.scale = factor(poly)
                        /\ f.pc = "done" => f.result.coef_rescale = factor(poly)
       /\ f.pc \in {"decoded", "done"} => f.chosen = AloneDecision(f)
       /\ f.pc = "done" => f.result.decision = AloneDecision(f)

RunContext == BuildContext(pools_json, hedges_json, scenarios_json, scenario_id, groups)

\* the stored monomial joins a rebalance tier with a hedge other than "none":
\* the IL penalty and the hedge overhead are the terms that do
JoinsRebalanceAndHedge(mono) ==
    LET hedged == {idx_of(groups, "hedge", k) : k \in Range(GMap(groups, "hedge").keys) \ {"none"}}
    IN /\ Range(mono) \cap Range(GMap(groups, "rebalance").var_indices) # {}
       /\ Range(mono) \cap hedged # {}

\* the combinations the loops of build_energy_polynomial visit: pool, size,
\* rebalance, hedge, tenor (None without a tenor group)
Combinations(c) ==
    Range(c.pool_keys) \X Range(c.size_keys) \X Range(c.reb_keys)
        \X Range(c.hedge_keys) \X Range(c.tenor_keys)

\* the monomial (pool, size, rebalance, hedge) of the combination k
IlMono(c, k) ==
    Sorted(<<idx_of(c.gs, "pool", k[1]), idx_of(c.gs, "size", k[2]),
             idx_of(c.gs, "rebalance", k[3]), idx_of(c.gs, "hedge", k[4])>>)

\* hedge_overhead of the combination k
OverheadOf(c, k) ==
    LET sl == SizeInputs(PoolInputs(PoolOf(c.pools_list, k[1]), c.mult), c.size_map, k[2])
    IN IF k[4] = "none" THEN 0
       ELSE HedgeOverhead(sl.gas_apr_per_reb, RebPerWeek(c.reb_map, k[3]))

\* il_penalty_apr of the combination k
IlPenaltyOf(c, k) ==
    LET pl == PoolInputs(PoolOf(c.pools_list, k[1]), c.mult)
        sl == SizeInputs(pl, c.size_map, k[2])
    IN IlPenaltyApr(pl.il_apr_base, sl.size_mult, RebMult(c.reb_map, k[3]),
                    HedgeParams(c.hj, k[1], k[4], k[5], k[2])[2])

C23_WitnessNoTenor ==
    /\ pc = "poly"
    /\ ~HasGroup(groups, "tenor")
    /\ \E k \in Combinations(RunContext) :
          /\ OverheadOf(RunContext, k) > 0
          /\ IlPenaltyOf(RunContext, k) > 0
          /\ CoefOf(pb.terms, IlMono(RunContext, k)) > IlPenaltyOf(RunContext, k)

\* the Choice of the combination k: the keys decode_argmax returns for the valid
\* assignment that selects them
ChoiceOf(c, k) ==
    [name \in {"pool", "size", "rebalance", "hedge"} \cup (IF c.has_tenor THEN {"tenor"} ELSE {}) |->
        CASE name = "pool" -> k[1]
          [] name = "size" -> k[2]
          [] name = "rebalance" -> k[3]
          [] name = "hedge" -> k[4]
          [] name = "tenor" -> k[5]]

\* compute_breakdown's penalties for the combination k
PenaltiesOf(c, k) ==
    ComputeBreakdown(pools_json, hedges_json, scenarios_json, scenario_id,
                     ChoiceOf(c, k)).penalties_and_costs

\* the coefficient of the hedge-cost monomial of the combination k: what the
\* hedge-cost terms contribute to the energy of the valid assignment selecting k
HedgeCostEnergy(c, k) == CoefOf(pb.terms, Sorted(HedgeCostMono(c, k[1], k[2], k[4], k[5])))

\* C24 as stated: for every valid one-hot assignment the hedge-cost monomial
\* contributes the hedge cost that hedge_params returns (the hedge_cost_apr of
\* the breakdown), whatever the number of rebalance tiers.
C24_HedgeCostOnce ==
    pc = "poly" =>
        \A c \in {RunContext} :
            \A k \in Combinations(c) : HedgeCostEnergy(c, k) = PenaltiesOf(c, k).hedge_cost_apr

\* what the code does instead: the hedge cost is added once per rebalance tier
C24_HedgeCostPerRebalanceTier ==
    pc = "poly" =>
        \A c \in {RunContext} :
            \A k \in Combinations(c) :
                HedgeCostEnergy(c, k) = Len(c.reb_keys) * PenaltiesOf(c, k).hedge_cost_apr

\* the coefficient of the IL monomial of the combination k less the hedge
\* overhead that shares the monomial without a tenor group
IlEnergy(c, k) ==
    CoefOf(pb.terms, IlMono(c, k)) - (IF c.has_tenor THEN 0 ELSE OverheadOf(c, k))

\* the IL penalties of the combination k over the tenor tiers t..
RECURSIVE IlOverTenors(_, _, _)
IlOverTenors(c, k, t) ==
    IF t > Len(c.tenor_keys) THEN 0
    ELSE IlPenaltyOf(c, <<k[1], k[2], k[3], k[4], c.tenor_keys[t]>>) + IlOverTenors(c, k, t + 1)

\* C25 as stated: for every valid one-hot assignment the IL monomial (pool,
\* size, rebalance, hedge) contributes the il_penalty_apr of the breakdown of
\* the chosen pool, size, rebalance, hedge and tenor, whatever the number of
\* tenor tiers.
C25_IlPenaltyOnce ==
    pc = "poly" =>
        \A c \in {RunContext} :
            \A k \in Combinations(c) : IlEnergy(c, k) = PenaltiesOf(c, k).il_penalty_apr

\* what the code does instead: the IL monomial accumulates the IL penalty of
\* every tenor tier
C25_IlPenaltyPerTenorTier ==
    pc = "poly" =>
        \A c \in {RunContext} :
            \A k \in Combinations(c) : IlEnergy(c, k) = IlOverTenors(c, k, 1)

\* the positions in pool_overrides of the override entries for the position,
\* tenor and hedge that give the field
OverridesGiving(hj, pool_id, hedge_key, tenor_key, field) ==
    {i \in 1..Len(hj.pool_overrides) :
        /\ hj.pool_overrides[i].pool_id = pool_id
        /\ hj.pool_overrides[i].tenor = tenor_key
        /\ hj.pool_overrides[i].hedge = hedge_key
        /\ field \in DOMAIN hj.pool_overrides[i]}

\* the precedence of hedge_params: the defaults (the hedge type's, or the
\* fallback table's), replaced by the last override for the position, tenor and
\* hedge when there is a tenor key and such an entry, then multiplied by the
\* multipliers of the size tier when it has an entry
ByPrecedence(hj, pool_id, hedge_key, tenor_key, size_key) ==
    LET d == IF \E i \in 1..Len(hj.hedge_types) : hj.hedge_types[i].key = hedge_key
             THEN LET h == BucketMap(hj.hedge_types)[hedge_key]
                  IN <<h.default_cost_apr, h.default_il_multiplier>>
             ELSE CASE hedge_key = "none" -> <<0, 1000>>
                    [] hedge_key = "protective_put" -> <<60, 650>>
                    [] OTHER -> <<30, 800>>
        last(S, field) == hj.pool_overrides[CHOOSE i \in S : \A j \in S : j <= i][field]
        cs == IF tenor_key = None THEN {}
              ELSE OverridesGiving(hj, pool_id, hedge_key, tenor_key, "cost_apr")
        ms == IF tenor_key = None THEN {}
              ELSE OverridesGiving(hj, pool_id, hedge_key, tenor_key, "il_multiplier")
        cost == IF cs = {} THEN d[1] ELSE last(cs, "cost_apr")
        il_mult == IF ms = {} THEN d[2] ELSE last(ms, "il_multiplier")
    IN IF size_key \in DOMAIN hj.size_scaling
       THEN <<(cost * hj.size_scaling[size_key].cost_multiplier) \div UNIT,
              (il_mult * hj.size_scaling[size_key].benefit_multiplier) \div UNIT>>
       ELSE <<cost, il_mult>>

C26_WitnessNoTenor ==
    /\ pc = "done"
    /\ chosen["pool"] = "P2" /\ chosen["hedge"] = "put" /\ chosen["size"] = "M"
    /\ "tenor" \notin DOMAIN chosen
    /\ result.score_breakdown.penalties_and_costs.hedge_cost_apr = 60

\* C26 witness of an override that gives the IL multiplier only: the cost is
\* the default
C26_WitnessPartial ==
    /\ pc = "poly"
    /\ HasGroup(groups, "tenor")
    /\ \E k \in Combinations(RunContext) :
          /\ k[1] = "P1" /\ k[4] = "put" /\ k[5] = "7D" /\ k[2] = "M"
          /\ HedgeParams(hedges_json, k[1], k[4], k[5], k[2]) = <<60, 700>>

\* C27: every valid one-hot assignment receives the same total from the one-hot
\* constraint terms, -lambda for each group: its energy less the energy of its
\* objective terms (the reward, cost and penalty terms, the polynomial before
\* the one-hot terms are added) is the same number d for all of them, so the energies of two valid
\* assignments differ by exactly the difference of their objective terms.
C27_ValidTies ==
    pc = "poly" =>
        \A obj \in {ObjectiveTerms(pools_json, hedges_json, scenarios_json, scenario_id, groups).terms} :
            \A first \in {{groups[i].var_indices[1] : i \in 1..Len(groups)}} :
                \A d \in {Energy(pb.terms, first) - Energy(obj, first)} :
                    /\ d = 0 - Len(groups) * meta.lambda
                    /\ \A x \in ValidAssignments(groups, SumKeys(groups, 1)) :
                          Energy(pb.terms, x) - Energy(obj, x) = d

\* C27 witness: a polynomial with two valid assignments of different energy and
\* two of the same energy, and one-hot terms that weigh on each
C27_Witness ==
    /\ pc = "poly"
    /\ meta.lambda > 0
    /\ \E x, y \in ValidAssignments(groups, SumKeys(groups, 1)) :
          /\ Energy(pb.terms, x) # Energy(pb.terms, y)
          /\ Energy(pb.terms, x) # 0 - Len(groups) * meta.lambda
    /\ \E x, y \in ValidAssignments(groups, SumKeys(groups, 1)) :
          x # y /\ Energy(pb.terms, x) = Energy(pb.terms, y)

\* C28 as stated: when the hedge catalog contains "none" and the chosen sample
\* has the least energy of all assignments of the submitted polynomial, the
\* reported net_apr_improvement is at least 0, on every catalog.
C28_NeverWorseThanBaseline ==
    (/\ pc = "done"
     /\ "none" \in Range(GMap(groups, "hedge").keys)
     /\ GroundState(Ones(sol_int)))
        => result.net_apr_improvement >= 0

\* where the polynomial counts every term once: with at most one rebalance tier
\* and at most one tenor tier the improvement of a least-energy sample is at
\* least 0
C28_NeverWorseSingleTiers ==
    (/\ pc = "done"
     /\ "none" \in Range(GMap(groups, "hedge").keys)
     /\ GroundState(Ones(sol_int))
     /\ Len(GMap(groups, "rebalance").keys) = 1
     /\ (HasGroup(groups, "tenor") => Len(GMap(groups, "tenor").keys) = 1))
        => result.net_apr_improvement >= 0

\* the variables idx_of(group, key) of a Choice
EncodeChoice(ch) == {idx_of(groups, name, ch[name]) : name \in DOMAIN ch}

\* the keys of every group are distinct
DistinctKeys ==
    \A i \in 1..Len(groups) :
        \A a, b \in 1..Len(groups[i].keys) : groups[i].keys[a] = groups[i].keys[b] => a = b

\* C29: on a layout whose keys are distinct within each group, for every Choice
\* (one key per group) the vector that sets exactly the variables idx_of(group,
\* key) of the Choice is decoded by decode_argmax to the same Choice; and a
\* run's decision for a one-hot sample encodes to that sample.
C29_RoundTrip ==
    /\ (pc = "poly" /\ DistinctKeys) =>
          \A c \in {RunContext} :
              \A k \in Combinations(c) :
                  /\ Cardinality(EncodeChoice(ChoiceOf(c, k))) = Len(groups)
                  /\ DecodeArgmax(groups, VectorOf(EncodeChoice(ChoiceOf(c, k)), SumKeys(groups, 1)))
                        = ChoiceOf(c, k)
    /\ (pc = "decoded" /\ DistinctKeys /\ Ones(sol_int) \in ValidAssignments(groups, num_variables))
          => EncodeChoice(chosen) = Ones(sol_int)

\* C29 witness: the decision of a run for a one-hot sample that selects a key
\* other than the first in the pool group and in the hedge group
C29_Witness ==
    /\ pc = "decoded"
    /\ DistinctKeys
    /\ Ones(sol_int) \in ValidAssignments(groups, num_variables)
    /\ chosen["pool"] # GMap(groups, "pool").keys[1]
    /\ chosen["hedge"] # GMap(groups, "hedge").keys[1]
    /\ sol_int = VectorOf(EncodeChoice(chosen), num_variables)

\* C30: in every run the solver is submitted to at most once; the submission is
\* made from the rescaled state, when the layout, the polynomial, the rescale
\* and num_variables are complete; the response is handed to the decoding only
\* when the remote job completed, and a decision exists only after one
\* submission with a completed response; a run with fewer than 3 positions or
\* an unknown scenario id never submits; and a failed run takes no further step.
C30_SingleSubmissionInOrder ==
    [][/\ submissions' \in {submissions, submissions + 1}
       /\ submissions' <= 1
       /\ submissions' > submissions
             => /\ pc = "rescaled"
                /\ groups = BuildVariables(pools_json, hedges_json)
                /\ pb.terms # <<>>
                /\ scale[2] > 0
                /\ num_variables = SumKeys(groups, 1)
                /\ poly_file' = ToPolynomialFile(pb, num_variables)
       /\ pc' = "responded" => (submissions' = 1 /\ remote_status' = COMPLETED)
       /\ chosen' # <<>> => (submissions' = 1 /\ remote_status' = COMPLETED /\ job_resp'.status = COMPLETED)
       /\ (Len(pools_json.pools) < 3 \/ ~HasScenario(scenarios_json, scenario_id))
             => (submissions' = 0 /\ remote_status' = "" /\ pc' \in {"layout", "error"})
       /\ pc # "error"
      ]_vars

\* C30 witness: a finished run: one submission, a completed response, a decision
C30_Witness ==
    /\ pc = "done"
    /\ submissions = 1
    /\ remote_status = COMPLETED
    /\ chosen # <<>>
    /\ poly_file # <<>>

\* C30 witness of a failed lookup: the layout was built, the scenario id is
\* unknown, nothing was submitted
C30_WitnessNoSubmission ==
    /\ pc = "error"
    /\ groups # <<>>
    /\ ~HasScenario(scenarios_json, scenario_id)
    /\ submissions = 0

\* C30 witness of a failed job: one submission, no decision, no further step
C30_WitnessNotRetried ==
    /\ pc = "error"
    /\ submissions = 1
    /\ remote_status = "FAILED"
    /\ chosen = <<>>

=============================================================================
